---- MODULE Spec2Model ----
(***************************************************************************)
(* Model of the segmentator pipeline: the segment merge / rank engine of   *)
(* AnalysisService and the three queue consumers (transcription, analysis, *)
(* clipping) with the request handlers that feed their queues.             *)
(*                                                                         *)
(* Scores are kept in tenths (an informativenessScore of 7 is 70) so that  *)
(* the one-decimal rounding of calculateAggregatedScore stays exact.       *)
(* A time string "HH:MM:SS" is the tuple of its numeric parts.             *)
(***************************************************************************)
EXTENDS Integers, Sequences, FiniteSets, TLC

VARIABLES
    \* ---- merge / rank engine (AnalysisService.optimizeSegments) ----
    analyzedSegments,   \* input list of AnalyzedSegment
    analysisConfig,     \* analysisConfig of the processing configuration
    mergePc,            \* "input" | "merged" | "ranked"
    mergedSegments,     \* result of optimizeSegmentsByMerging
    optimizedSegments,  \* result of rankAndFilterSegments
    scoring,            \* one batchAnalyzeSegments call: position, batches, responses
    clipping,           \* one run of the clipping stage's steps 4 to 6 on their own
    \* ---- pipeline (documents, queues, consumers) ----
    storage,            \* paths held by the storage provider
    uploads,            \* outcome of every uploadFile call, in call order
    files,              \* File documents, in creation order (id = index)
    history,            \* ProcessingHistory documents, by file id
    transcripts,        \* Transcription documents, in creation order
    analyses,           \* AnalysisResult documents, in creation order
    clips,              \* VideoClip documents, in creation order
    clipFiles,          \* clip files on disk: <<clips directory, index>> -> content
    jobs                \* every job ever added to a queue, in order of addition

mergeVars == <<analyzedSegments, analysisConfig, mergePc, mergedSegments, optimizedSegments,
              scoring, clipping>>
pipeVars == <<storage, uploads, files, history, transcripts, analyses, clips, clipFiles,
             jobs>>
vars == <<analyzedSegments, analysisConfig, mergePc, mergedSegments, optimizedSegments,
          scoring, clipping, storage, uploads, files, history, transcripts, analyses, clips, clipFiles,
          jobs>>

(***************************************************************************)
(* Bounds                                                                  *)
(***************************************************************************)
MaxSegs == 3
MaxFiles == 2
MaxJobs == 3
MaxRequests == 1
Workers == 1
MaxStalled == 1
MaxFill == 9
MaxScored == 7

Durations == {30, 60}
Scores == {4, 7, 8}
MaxDurations == {90, 150}
MinScores == {0, 7}
TopicLayouts == {"same", "distinct"}

(***************************************************************************)
(* Generic helpers                                                         *)
(***************************************************************************)
Range(s) == {s[i] : i \in DOMAIN s}

RECURSIVE SumSeq(_)
SumSeq(s) == IF s = <<>> THEN 0 ELSE Head(s) + SumSeq(Tail(s))

RECURSIVE FlatMap(_)
FlatMap(ss) == IF ss = <<>> THEN <<>> ELSE Head(ss) \o FlatMap(Tail(ss))

\* [...new Set(xs)]: duplicates removed, first occurrence kept
RECURSIVE Dedup(_)
Dedup(xs) ==
    IF xs = <<>> THEN <<>>
    ELSE LET init == Dedup(SubSeq(xs, 1, Len(xs) - 1))
             last == xs[Len(xs)]
         IN IF last \in Range(init) THEN init ELSE Append(init, last)

\* faulty variant: no index is moved
SortPerm_InputOrder(keys) == [k \in DOMAIN keys |-> k]

\* Array.prototype.sort((a, b) => key(a) - key(b)) is stable: SortPerm(keys) is
\* the order in which the indices of keys come out, equal keys in input order
RECURSIVE SortPerm(_)
SortPerm(keys) ==
    IF keys = <<>> THEN <<>>
    ELSE LET n == Len(keys)
             p == SortPerm(SubSeq(keys, 1, n - 1))
             cnt == Cardinality({k \in DOMAIN p : keys[p[k]] <= keys[n]})
         IN SubSeq(p, 1, cnt) \o <<n>> \o SubSeq(p, cnt + 1, n - 1)

\* faulty variant: the list is left in its input order
SortByKeys_Unsorted(s, keys) == s

SortByKeys(s, keys) ==
    LET p == SortPerm(keys) IN [k \in DOMAIN s |-> s[p[k]]]

\* faulty variant: the difference keeps its sign
Abs_Signed(x) == x

Abs(x) == IF x < 0 THEN -x ELSE x
Min2(a, b) == IF a < b THEN a ELSE b

(***************************************************************************)
(* Time strings                                                            *)
(***************************************************************************)
secondsToTimeString(seconds) ==
    <<seconds \div 3600, (seconds % 3600) \div 60, seconds % 60>>

timeToSeconds(timeString) ==
    IF Len(timeString) = 3
    THEN timeString[1] * 3600 + timeString[2] * 60 + timeString[3]
    ELSE IF Len(timeString) = 2
         THEN timeString[1] * 60 + timeString[2]
         ELSE IF Len(timeString) >= 1 THEN timeString[1] ELSE 0

(***************************************************************************)
(* Topics: a topic is a sequence of characters; toLowerCase and includes   *)
(***************************************************************************)
LowerOf(c) ==
    CASE c = "A" -> "a" [] c = "I" -> "i" [] c = "M" -> "m" [] c = "L" -> "l"
      [] OTHER -> c

toLowerCase(topic) == [i \in DOMAIN topic |-> LowerOf(topic[i])]

\* String.prototype.includes
includes(str, sub) ==
    \E i \in 1..(Len(str) - Len(sub) + 1) : SubSeq(str, i, i + Len(sub) - 1) = sub

(***************************************************************************)
(* AnalysisService: merge engine                                           *)
(***************************************************************************)
calculateGroupDuration(segments) ==
    IF Len(segments) = 0 THEN 0
    ELSE timeToSeconds(segments[Len(segments)].endTime)
         - timeToSeconds(segments[1].startTime)

\* faulty variant: topics are compared as written, case included
hasOverlappingTopics_CaseSensitive(segment, lastSegment) ==
    \E i \in DOMAIN segment.keyTopics : \E j \in DOMAIN lastSegment.keyTopics :
        LET topic == segment.keyTopics[i]
            lastTopic == lastSegment.keyTopics[j]
        IN includes(topic, lastTopic) \/ includes(lastTopic, topic)

hasOverlappingTopics(segment, lastSegment) ==
    \E i \in DOMAIN segment.keyTopics : \E j \in DOMAIN lastSegment.keyTopics :
        LET topic == toLowerCase(segment.keyTopics[i])
            lastTopic == toLowerCase(lastSegment.keyTopics[j])
        IN includes(topic, lastTopic) \/ includes(lastTopic, topic)

\* faulty variant: the combine hint is honoured before the duration cutoff
shouldCombine_FlagFirst(segment, currentGroup, maxCombinedDuration) ==
    IF Len(currentGroup) = 0 THEN TRUE
    ELSE LET lastSegment == currentGroup[Len(currentGroup)]
             totalDuration == timeToSeconds(segment.startTime)
                              - timeToSeconds(currentGroup[1].startTime)
                              + segment.duration
         IN IF lastSegment.shouldCombineWithNext THEN TRUE
            ELSE IF totalDuration > maxCombinedDuration THEN FALSE
            ELSE IF Abs(segment.informativenessScore
                        - lastSegment.informativenessScore) <= 2 THEN TRUE
            ELSE IF hasOverlappingTopics(segment, lastSegment) THEN TRUE
            ELSE segment.informativenessScore >= 7
                 /\ lastSegment.informativenessScore >= 7

shouldCombine(segment, currentGroup, maxCombinedDuration) ==
    IF Len(currentGroup) = 0 THEN TRUE
    ELSE LET lastSegment == currentGroup[Len(currentGroup)]
             segmentStartTime == timeToSeconds(segment.startTime)
             groupStartTime == timeToSeconds(currentGroup[1].startTime)
             totalDuration == segmentStartTime - groupStartTime + segment.duration
         IN IF totalDuration > maxCombinedDuration THEN FALSE
            ELSE IF lastSegment.shouldCombineWithNext THEN TRUE
            ELSE IF Abs(segment.informativenessScore
                        - lastSegment.informativenessScore) <= 2 THEN TRUE
            ELSE IF hasOverlappingTopics(segment, lastSegment) THEN TRUE
            ELSE segment.informativenessScore >= 7
                 /\ lastSegment.informativenessScore >= 7

\* Math.pow(score, 1.5), scaled by 10^4
Pow15(score) ==
    CASE score = 1 -> 10000 [] score = 2 -> 28284 [] score = 3 -> 51962
      [] score = 4 -> 80000 [] score = 5 -> 111803 [] score = 6 -> 146969
      [] score = 7 -> 185203 [] score = 8 -> 226274 [] score = 9 -> 270000
      [] score = 10 -> 316228 [] OTHER -> 0

\* faulty variant: the plain average, rounded to one decimal
calculateAggregatedScore_PlainAverage(scores) ==
    IF Len(scores) = 1 THEN scores[1] * 10
    ELSE (20 * SumSeq(scores) + Len(scores)) \div (2 * Len(scores))

\* result in tenths: Math.round(x * 10) / 10 kept as the integer Math.round(x * 10)
calculateAggregatedScore(scores) ==
    IF Len(scores) = 1 THEN scores[1] * 10
    ELSE LET weights == [i \in DOMAIN scores |-> Pow15(scores[i])]
             weightedSum == SumSeq([i \in DOMAIN scores |-> scores[i] * weights[i]])
             totalWeight == SumSeq(weights)
         IN (20 * weightedSum + totalWeight) \div (2 * totalWeight)

\* reduce keeping prev unless current is strictly higher
RECURSIVE highestScoringSegment(_)
highestScoringSegment(segments) ==
    IF Len(segments) = 1 THEN segments[1]
    ELSE LET prev == highestScoringSegment(SubSeq(segments, 1, Len(segments) - 1))
             current == segments[Len(segments)]
         IN IF current.informativenessScore > prev.informativenessScore
            THEN current ELSE prev

createCombinedTitle(segments) ==
    IF Len(segments) = 1 THEN segments[1].title
    ELSE Append(highestScoringSegment(segments).title, "(Combined)")

createCombinedSummary(segments) ==
    IF Len(segments) = 1 THEN segments[1].summary
    ELSE Append(FlatMap([i \in DOMAIN segments |-> segments[i].summary]),
                "(Combined segments)")

\* faulty variant: a group of one goes through the path of a combined group
combineSegments_AlwaysCombined(segments) ==
    LET sortedSegments ==
                 SortByKeys(segments,
                            [i \in DOMAIN segments |->
                                 timeToSeconds(segments[i].startTime)])
             firstSegment == sortedSegments[1]
             lastSegment == sortedSegments[Len(sortedSegments)]
             scores == [i \in DOMAIN sortedSegments |->
                            sortedSegments[i].informativenessScore]
             aggregatedScore == calculateAggregatedScore(scores)
         IN [id |-> firstSegment.segmentId,
             startTime |-> firstSegment.startTime,
             endTime |-> lastSegment.endTime,
             duration |-> timeToSeconds(lastSegment.endTime)
                          - timeToSeconds(firstSegment.startTime),
             combinedSegmentIds |-> [i \in DOMAIN sortedSegments |->
                                         sortedSegments[i].segmentId],
             aggregatedScore |-> aggregatedScore,
             finalTitle |-> Append(highestScoringSegment(sortedSegments).title, "(Combined)"),
             finalSummary |-> Append(FlatMap([i \in DOMAIN sortedSegments |-> sortedSegments[i].summary]),
                                     "(Combined segments)"),
             finalKeyTopics |-> Dedup(FlatMap([i \in DOMAIN sortedSegments |->
                                                   sortedSegments[i].keyTopics])),
             extractionPriority |-> aggregatedScore,
             rank |-> 1]

combineSegments(segments) ==
    IF Len(segments) = 1
    THEN LET segment == segments[1]
         IN [id |-> segment.segmentId,
             startTime |-> segment.startTime,
             endTime |-> segment.endTime,
             duration |-> segment.duration,
             combinedSegmentIds |-> <<segment.segmentId>>,
             aggregatedScore |-> segment.informativenessScore * 10,
             finalTitle |-> segment.title,
             finalSummary |-> segment.summary,
             finalKeyTopics |-> segment.keyTopics,
             extractionPriority |-> segment.informativenessScore * 10,
             rank |-> 1]
    ELSE LET sortedSegments ==
                 SortByKeys(segments,
                            [i \in DOMAIN segments |->
                                 timeToSeconds(segments[i].startTime)])
             firstSegment == sortedSegments[1]
             lastSegment == sortedSegments[Len(sortedSegments)]
             scores == [i \in DOMAIN sortedSegments |->
                            sortedSegments[i].informativenessScore]
             aggregatedScore == calculateAggregatedScore(scores)
         IN [id |-> firstSegment.segmentId,
             startTime |-> firstSegment.startTime,
             endTime |-> lastSegment.endTime,
             duration |-> timeToSeconds(lastSegment.endTime)
                          - timeToSeconds(firstSegment.startTime),
             combinedSegmentIds |-> [i \in DOMAIN sortedSegments |->
                                         sortedSegments[i].segmentId],
             aggregatedScore |-> aggregatedScore,
             finalTitle |-> createCombinedTitle(sortedSegments),
             finalSummary |-> createCombinedSummary(sortedSegments),
             finalKeyTopics |-> Dedup(FlatMap([i \in DOMAIN sortedSegments |->
                                                   sortedSegments[i].keyTopics])),
             extractionPriority |-> aggregatedScore,
             rank |-> 1]

\* faulty variant: the group still open when the loop ends is never emitted
RECURSIVE mergeLoop_NoLastGroup(_, _, _, _, _)
mergeLoop_NoLastGroup(segments, i, optimized, currentGroup, maxCombinedDuration) ==
    IF i > Len(segments)
    THEN optimized
    ELSE IF shouldCombine(segments[i], currentGroup, maxCombinedDuration)
         THEN mergeLoop_NoLastGroup(segments, i + 1, optimized,
                                    Append(currentGroup, segments[i]),
                                    maxCombinedDuration)
         ELSE mergeLoop_NoLastGroup(segments, i + 1,
                                    IF Len(currentGroup) > 0
                                    THEN Append(optimized, combineSegments(currentGroup))
                                    ELSE optimized,
                                    <<segments[i]>>, maxCombinedDuration)

\* the for loop of optimizeSegmentsByMerging from index i on, then the
\* processing of the last group
RECURSIVE mergeLoop(_, _, _, _, _)
mergeLoop(segments, i, optimized, currentGroup, maxCombinedDuration) ==
    IF i > Len(segments)
    THEN IF Len(currentGroup) > 0
         THEN Append(optimized, combineSegments(currentGroup))
         ELSE optimized
    ELSE IF shouldCombine(segments[i], currentGroup, maxCombinedDuration)
         THEN mergeLoop(segments, i + 1, optimized,
                        Append(currentGroup, segments[i]), maxCombinedDuration)
         ELSE mergeLoop(segments, i + 1,
                        IF Len(currentGroup) > 0
                        THEN Append(optimized, combineSegments(currentGroup))
                        ELSE optimized,
                        <<segments[i]>>, maxCombinedDuration)

optimizeSegmentsByMerging(segments, config) ==
    mergeLoop(segments, 1, <<>>, <<>>, config.maxCombinedDuration)

(***************************************************************************)
(* AnalysisService: ranking and filtering                                  *)
(***************************************************************************)
\* faulty variant: the index of the first score strictly above the given one
calculatePercentile_Strict(score, allScores) ==
    LET sortedScores == SortByKeys(allScores, allScores)
        hits == {i \in DOMAIN sortedScores : sortedScores[i] > score}
    IN IF hits = {} THEN 100
       ELSE LET index == (CHOOSE i \in hits : \A k \in hits : i <= k) - 1
            IN (200 * index + Len(sortedScores)) \div (2 * Len(sortedScores))

\* Math.round((index / length) * 100); scores in any one unit
calculatePercentile(score, allScores) ==
    LET sortedScores == SortByKeys(allScores, allScores)
        hits == {i \in DOMAIN sortedScores : sortedScores[i] >= score}
    IN IF hits = {} THEN 100
       ELSE LET index == (CHOOSE i \in hits : \A k \in hits : i <= k) - 1
            IN (200 * index + Len(sortedScores)) \div (2 * Len(sortedScores))

\* faulty variant: the boosted priority is returned without the cap
calculateExtractionPriorityWithRanking_NoCap(segment, rank, allScores) ==
    LET percentile == calculatePercentile(segment.aggregatedScore, allScores)
        base == segment.aggregatedScore
    IN base + (IF rank <= 3 THEN 10 ELSE 0)
            + (IF percentile >= 90 THEN 5 ELSE 0)

calculateExtractionPriorityWithRanking(segment, rank, allScores) ==
    LET percentile == calculatePercentile(segment.aggregatedScore, allScores)
        base == segment.aggregatedScore
        boosted == base + (IF rank <= 3 THEN 10 ELSE 0)
                        + (IF percentile >= 90 THEN 5 ELSE 0)
    IN Min2(boosted, 100)

\* faulty variant: equal scores are ordered by the later start time first
rankKey_LatestFirst(segment) ==
    (0 - segment.aggregatedScore) * 100000 - timeToSeconds(segment.startTime)

\* the comparator of rankAndFilterSegments as one ascending key:
\* aggregatedScore descending, then start time ascending
rankKey(segment) ==
    (0 - segment.aggregatedScore) * 100000 + timeToSeconds(segment.startTime)

\* faulty variant: a segment exactly at the threshold is dropped
rankAndFilterSegments_StrictFilter(segments, minScoreThreshold) ==
    LET filtered == SelectSeq(segments,
                        LAMBDA s : s.aggregatedScore > minScoreThreshold * 10)
        ranked == SortByKeys(filtered,
                      [i \in DOMAIN filtered |-> rankKey(filtered[i])])
        allScores == [i \in DOMAIN segments |-> segments[i].aggregatedScore]
    IN [i \in DOMAIN ranked |->
           [ranked[i] EXCEPT !.rank = i,
                             !.extractionPriority =
                                 calculateExtractionPriorityWithRanking(ranked[i], i, allScores)]]

\* minScoreThreshold in score units (not tenths)
rankAndFilterSegments(segments, minScoreThreshold) ==
    LET filtered == SelectSeq(segments,
                        LAMBDA s : s.aggregatedScore >= minScoreThreshold * 10)
        ranked == SortByKeys(filtered,
                      [i \in DOMAIN filtered |-> rankKey(filtered[i])])
        allScores == [i \in DOMAIN segments |-> segments[i].aggregatedScore]
    IN [i \in DOMAIN ranked |->
           [ranked[i] EXCEPT !.rank = i,
                             !.extractionPriority =
                                 calculateExtractionPriorityWithRanking(ranked[i], i, allScores)]]

\* analysisConfig.minInformativenessScore || 5
effectiveMinScore(config) ==
    IF config.minInformativenessScore = 0 THEN 5 ELSE config.minInformativenessScore

optimizeSegments(segments, config) ==
    rankAndFilterSegments(optimizeSegmentsByMerging(segments, config),
                          effectiveMinScore(config))

(***************************************************************************)
(* Merge engine: inputs and the optimizeSegments step                      *)
(***************************************************************************)
\* k-th segment of a transcript whose segments follow one another in time
MkSegment(k, start, duration, score, flag, layout) ==
    [segmentId |-> k,
     startTime |-> secondsToTimeString(start),
     endTime |-> secondsToTimeString(start + duration),
     duration |-> duration,
     informativenessScore |-> score,
     title |-> <<"title", ToString(k)>>,
     summary |-> <<"summary", ToString(k)>>,
     keyTopics |-> IF layout = "same" THEN << <<"a", "i">> >>
                   ELSE IF layout = "nested"
                        THEN (IF k % 2 = 1 THEN << <<"A", "I">> >>
                              ELSE << <<"a", "i", "m">> >>)
                        ELSE << <<"t", ToString(k)>> >>,
     shouldCombineWithNext |-> flag]

MkSegments(durs, scores, flags, layout) ==
    [k \in DOMAIN durs |->
        MkSegment(k, SumSeq(SubSeq(durs, 1, k - 1)), durs[k], scores[k], flags[k], layout)]

NoResponse == [segments |-> <<>>, overallSummary |-> <<>>, mainTopics |-> <<>>]

NoScoring ==
    [pc |-> "idle", segments |-> <<>>, batches |-> <<>>, batchResults |-> <<>>,
     response |-> NoResponse]

NoClipping ==
    [pc |-> "idle", stored |-> <<>>, options |-> <<>>, segmentsToUse |-> <<>>,
     segmentsToClip |-> <<>>, timecodes |-> <<>>, runs |-> <<>>, failed |-> {},
     clipPaths |-> <<>>, threw |-> FALSE]

NoPipeline ==
    /\ storage = {}
    /\ uploads = <<>>
    /\ files = <<>>
    /\ history = <<>>
    /\ transcripts = <<>>
    /\ analyses = <<>>
    /\ clips = <<>>
    /\ clipFiles = <<>>
    /\ jobs = <<>>

InitMerge ==
    /\ \E n \in 0..MaxSegs :
         \E durs \in [1..n -> Durations], scores \in [1..n -> Scores],
            flags \in [1..n -> BOOLEAN], layout \in TopicLayouts :
             analyzedSegments = MkSegments(durs, scores, flags, layout)
    /\ \E maxDur \in MaxDurations, minScore \in MinScores :
         analysisConfig = [maxCombinedDuration |-> maxDur,
                           minInformativenessScore |-> minScore]
    /\ mergePc = "input"
    /\ mergedSegments = <<>>
    /\ optimizedSegments = <<>>
    /\ scoring = NoScoring
    /\ clipping = NoClipping
    /\ NoPipeline

OptimizeSegments ==
    /\ mergePc = "input"
    /\ mergedSegments' = optimizeSegmentsByMerging(analyzedSegments, analysisConfig)
    /\ optimizedSegments' = rankAndFilterSegments(mergedSegments',
                                                  effectiveMinScore(analysisConfig))
    /\ mergePc' = "ranked"
    /\ UNCHANGED <<analyzedSegments, analysisConfig, scoring, clipping>>
    /\ UNCHANGED pipeVars

NextMerge == OptimizeSegments

SpecMerge == InitMerge /\ [][NextMerge]_vars

(***************************************************************************)
(* Properties of the merge engine (checked under SpecMerge)                *)
(***************************************************************************)
InputIds == {analyzedSegments[i].segmentId : i \in DOMAIN analyzedSegments}

CombinedIdsOf(segments) ==
    FlatMap([i \in DOMAIN segments |-> segments[i].combinedSegmentIds])

GroupsOf(segments) == [i \in DOMAIN segments |-> segments[i].combinedSegmentIds]

\* C1: the groups returned by optimizeSegmentsByMerging partition the input:
\* every input segment id is in the combinedSegmentIds of exactly one returned
\* segment, and no other id appears.
C1_MergePartition ==
    mergePc = "ranked" =>
        LET ids == CombinedIdsOf(mergedSegments)
        IN /\ Range(ids) = InputIds
           /\ Len(ids) = Len(analyzedSegments)
           /\ \A i, j \in DOMAIN ids : ids[i] = ids[j] => i = j

C1_Witness ==
    /\ mergePc = "ranked"
    /\ Len(mergedSegments) >= 2
    /\ \E i \in DOMAIN mergedSegments : Len(mergedSegments[i].combinedSegmentIds) >= 2

IsCutoffExample ==
    /\ Len(analyzedSegments) = 3
    /\ [i \in 1..3 |-> analyzedSegments[i].duration] = <<60, 60, 30>>
    /\ analyzedSegments[1].shouldCombineWithNext
    /\ analyzedSegments[2].shouldCombineWithNext
    /\ analysisConfig.maxCombinedDuration = 90

\* C3: for a non-empty group, shouldCombine is false whenever segment start -
\* group start + segment duration exceeds maxCombinedDuration, whatever the
\* flags, scores and topics; segments of 60s, 60s, 30s with a 90s budget and
\* the combine flag set merge into [{seg1}, {seg2, seg3}].
C3_DurationCutoffFirst ==
    /\ \A i, k \in DOMAIN analyzedSegments :
          i < k =>
            LET group == SubSeq(analyzedSegments, i, k - 1)
                segment == analyzedSegments[k]
                total == timeToSeconds(segment.startTime)
                         - timeToSeconds(group[1].startTime) + segment.duration
            IN total > analysisConfig.maxCombinedDuration =>
                 ~shouldCombine(segment, group, analysisConfig.maxCombinedDuration)
    /\ (mergePc = "ranked" /\ IsCutoffExample) =>
          GroupsOf(mergedSegments) = << <<1>>, <<2, 3>> >>

C3_Witness ==
    /\ mergePc = "ranked"
    /\ IsCutoffExample
    /\ analyzedSegments[3].shouldCombineWithNext

(***************************************************************************)
(* The combine criteria: the same optimizeSegments step over inputs whose  *)
(* scores and topics separate the four criteria of shouldCombine           *)
(***************************************************************************)
CombineScores == {4, 7, 8, 10}
CombineLayouts == {"same", "distinct", "nested"}
CombineDurations == {30}

InitCombine ==
    /\ \E n \in 2..MaxSegs :
         \E durs \in [1..n -> CombineDurations], scores \in [1..n -> CombineScores],
            flags \in [1..n -> BOOLEAN], layout \in CombineLayouts :
             analyzedSegments = MkSegments(durs, scores, flags, layout)
    /\ \E maxDur \in MaxDurations, minScore \in MinScores :
         analysisConfig = [maxCombinedDuration |-> maxDur,
                           minInformativenessScore |-> minScore]
    /\ mergePc = "input"
    /\ mergedSegments = <<>>
    /\ optimizedSegments = <<>>
    /\ scoring = NoScoring
    /\ clipping = NoClipping
    /\ NoPipeline

SpecCombine == InitCombine /\ [][NextMerge]_vars

\* topic a occurs inside topic b once both are lower-cased
ContainedIgnoringCase(a, b) ==
    \E off \in 0..(Len(b) - Len(a)) :
        \A c \in 1..Len(a) : LowerOf(b[off + c]) = LowerOf(a[c])

TopicsOverlap(segment, lastSegment) ==
    \E t \in Range(segment.keyTopics), u \in Range(lastSegment.keyTopics) :
        ContainedIgnoringCase(t, u) \/ ContainedIgnoringCase(u, t)

\* the four criteria, stated over the segment and the group's last segment
AnyCriterion(segment, lastSegment) ==
    \/ lastSegment.shouldCombineWithNext
    \/ segment.informativenessScore - lastSegment.informativenessScore \in -2..2
    \/ TopicsOverlap(segment, lastSegment)
    \/ /\ segment.informativenessScore >= 7
       /\ lastSegment.informativenessScore >= 7

FitsBudget(segment, groupStart) ==
    timeToSeconds(segment.startTime) - timeToSeconds(groupStart.startTime)
        + segment.duration <= analysisConfig.maxCombinedDuration

\* the merged segment that holds input segment id
GroupHolding(id) ==
    CHOOSE g \in Range(mergedSegments) : id \in Range(g.combinedSegmentIds)

\* C14: for a non-empty group and a segment that fits the duration budget,
\* shouldCombine is true iff the group's last segment has shouldCombineWithNext,
\* or the two scores differ by at most 2, or some topic of one contains a topic
\* of the other ignoring case, or both scores are at least 7; when none holds
\* the group is closed and the segment starts a new group.
C14_CombineCriteria ==
    /\ \A i, k \in DOMAIN analyzedSegments :
          i < k =>
            LET group == SubSeq(analyzedSegments, i, k - 1)
                segment == analyzedSegments[k]
            IN FitsBudget(segment, group[1]) =>
                 (shouldCombine(segment, group, analysisConfig.maxCombinedDuration)
                    <=> AnyCriterion(segment, group[Len(group)]))
    /\ mergePc = "ranked" =>
          \A k \in DOMAIN analyzedSegments :
             k > 1 =>
               LET prevGroup == GroupHolding(k - 1)
                   sameGroup == k \in Range(prevGroup.combinedSegmentIds)
                   segment == analyzedSegments[k]
                   groupStart == analyzedSegments[prevGroup.combinedSegmentIds[1]]
               IN /\ FitsBudget(segment, groupStart) =>
                        (sameGroup <=> AnyCriterion(segment, analyzedSegments[k - 1]))
                  /\ ~sameGroup =>
                        /\ prevGroup.combinedSegmentIds[Len(prevGroup.combinedSegmentIds)] = k - 1
                        /\ GroupHolding(k).combinedSegmentIds[1] = k

\* two segments within budget that meet none of the criteria, split in two
C14_Witness ==
    /\ mergePc = "ranked"
    /\ Len(analyzedSegments) = 2
    /\ FitsBudget(analyzedSegments[2], analyzedSegments[1])
    /\ ~AnyCriterion(analyzedSegments[2], analyzedSegments[1])
    /\ GroupsOf(mergedSegments) = << <<1>>, <<2>> >>

\* scores 7, 8, 4 in that order, no combine flag, a budget that holds all three
IsSimilarityExample ==
    /\ Len(analyzedSegments) = 3
    /\ [i \in 1..3 |-> analyzedSegments[i].informativenessScore] = <<7, 8, 4>>
    /\ \A i \in 1..3 : ~analyzedSegments[i].shouldCombineWithNext
    /\ calculateGroupDuration(analyzedSegments) <= analysisConfig.maxCombinedDuration

\* C15 as stated: segments scored 7, 8, 4 under a budget large enough for all
\* three merge into one group of all three on score similarity alone, with no
\* combine flag and no overlapping topics needed.
C15_ScoreSimilarityAlone ==
    (mergePc = "ranked" /\ IsSimilarityExample) =>
        GroupsOf(mergedSegments) = << <<1, 2, 3>> >>

\* C15 (amended): segments scored 7, 8, 4 with no combine flag, under a budget
\* large enough for all three, merge into one group of all three exactly when
\* the third shares a topic with the second; otherwise the first two merge on
\* score similarity and the third, compared only with the group's last member
\* (8), stays a group of its own.
C15_ScoreChain ==
    (mergePc = "ranked" /\ IsSimilarityExample) =>
        GroupsOf(mergedSegments) =
            IF TopicsOverlap(analyzedSegments[3], analyzedSegments[2])
            THEN << <<1, 2, 3>> >>
            ELSE << <<1, 2>>, <<3>> >>

C15_Witness ==
    /\ mergePc = "ranked"
    /\ IsSimilarityExample
    /\ ~TopicsOverlap(analyzedSegments[3], analyzedSegments[2])
    /\ GroupsOf(mergedSegments) = << <<1, 2>>, <<3>> >>

(***************************************************************************)
(* Ranking: the same optimizeSegments step over longer inputs, a run of    *)
(* equally scored segments before or after one or two others, under a      *)
(* budget that lets no two segments merge                                  *)
(***************************************************************************)
FillScores == {4, 6, 9}
HeadScores == {5, 8, 10}
RankBudgets == {30}

InitRank ==
    /\ \E fill \in 0..MaxFill, fillScore \in FillScores, m \in 1..2, headsFirst \in BOOLEAN :
         \E heads \in [1..m -> HeadScores] :
             LET fillers == [k \in 1..fill |-> fillScore]
                 scores == IF headsFirst THEN heads \o fillers ELSE fillers \o heads
             IN analyzedSegments =
                    MkSegments([k \in DOMAIN scores |-> 30], scores,
                               [k \in DOMAIN scores |-> FALSE], "distinct")
    /\ \E maxDur \in RankBudgets, minScore \in MinScores :
         analysisConfig = [maxCombinedDuration |-> maxDur,
                           minInformativenessScore |-> minScore]
    /\ mergePc = "input"
    /\ mergedSegments = <<>>
    /\ optimizedSegments = <<>>
    /\ scoring = NoScoring
    /\ clipping = NoClipping
    /\ NoPipeline

SpecRank == InitRank /\ [][NextMerge]_vars

\* C16: the N returned segments carry the ranks 1..N, each once and in list
\* order; of two returned segments the one with the higher aggregatedScore has
\* the smaller rank, and of two with equal aggregatedScore the one with the
\* earlier startTime has the smaller rank.
C16_DenseRanks ==
    mergePc = "ranked" =>
        /\ \A i \in DOMAIN optimizedSegments : optimizedSegments[i].rank = i
        /\ \A i, j \in DOMAIN optimizedSegments :
              LET a == optimizedSegments[i]
                  b == optimizedSegments[j]
              IN /\ a.aggregatedScore > b.aggregatedScore => a.rank < b.rank
                 /\ (a.aggregatedScore = b.aggregatedScore
                      /\ timeToSeconds(a.startTime) < timeToSeconds(b.startTime))
                        => a.rank < b.rank

\* at least three returned segments, two of them tied, and the top one not
\* the earliest
C16_Witness ==
    /\ mergePc = "ranked"
    /\ Len(optimizedSegments) >= 3
    /\ \E i, j \in DOMAIN optimizedSegments :
          /\ i # j
          /\ optimizedSegments[i].aggregatedScore = optimizedSegments[j].aggregatedScore
    /\ \E j \in DOMAIN optimizedSegments :
          timeToSeconds(optimizedSegments[j].startTime)
              < timeToSeconds(optimizedSegments[1].startTime)

\* C17: for every configured minimum score the ranking step keeps exactly the
\* merged segments whose aggregatedScore is at or above that configured
\* minimum: none below it is returned and none at or above it is dropped.
C17_KeepsConfiguredMinimum ==
    mergePc = "ranked" =>
        {optimizedSegments[i].id : i \in DOMAIN optimizedSegments}
            = {mergedSegments[i].id : i \in
                  {k \in DOMAIN mergedSegments :
                       mergedSegments[k].aggregatedScore
                           >= analysisConfig.minInformativenessScore * 10}}

\* round(100 * (number of scores of the population below score) / size)
PercentileAmong(score, population) ==
    LET below == Cardinality({k \in DOMAIN population : population[k] < score})
    IN (200 * below + Len(population)) \div (2 * Len(population))

MergedScores == [i \in DOMAIN mergedSegments |-> mergedSegments[i].aggregatedScore]
KeptScores == [i \in DOMAIN optimizedSegments |-> optimizedSegments[i].aggregatedScore]

\* C18: for every ranked segment extractionPriority = min(10, aggregatedScore
\* + 1 if rank <= 3 + 0.5 if its percentile is >= 90), the percentile taken
\* against the aggregated scores of all merged segments before filtering;
\* hence extractionPriority never exceeds 10. (Values in tenths.)
C18_ExtractionPriority ==
    mergePc = "ranked" =>
        \A i \in DOMAIN optimizedSegments :
            LET segment == optimizedSegments[i]
                boosted == segment.aggregatedScore
                           + (IF segment.rank <= 3 THEN 10 ELSE 0)
                           + (IF PercentileAmong(segment.aggregatedScore, MergedScores) >= 90
                              THEN 5 ELSE 0)
            IN /\ segment.extractionPriority = (IF boosted > 100 THEN 100 ELSE boosted)
               /\ segment.extractionPriority <= 100

\* a ranked segment with both boosts below the cap whose percentile reaches 90
\* only against the unfiltered population, another one past rank 3 or capped
C18_Witness ==
    /\ mergePc = "ranked"
    /\ Len(optimizedSegments) < Len(mergedSegments)
    /\ \E i \in DOMAIN optimizedSegments :
          LET segment == optimizedSegments[i]
          IN /\ PercentileAmong(segment.aggregatedScore, MergedScores) >= 90
             /\ PercentileAmong(segment.aggregatedScore, KeptScores) < 90
             /\ segment.extractionPriority = segment.aggregatedScore + 15
             /\ segment.extractionPriority < 100

\* the other cases of the formula: no boost past rank 3, and the cap
C18_WitnessCapped ==
    /\ mergePc = "ranked"
    /\ \E i \in DOMAIN optimizedSegments :
          /\ optimizedSegments[i].rank > 3
          /\ optimizedSegments[i].extractionPriority = optimizedSegments[i].aggregatedScore
    /\ \E i \in DOMAIN optimizedSegments :
          /\ optimizedSegments[i].aggregatedScore + 10 > 100
          /\ optimizedSegments[i].extractionPriority = 100

HighestOf(population) ==
    CHOOSE x \in Range(population) : \A y \in Range(population) : y <= x
LowestOf(population) ==
    CHOOSE x \in Range(population) : \A y \in Range(population) : x <= y

ProbeScores == Range(MergedScores) \cup {0, 55, 105}

\* s is population in ascending order
IsAscendingSortOf(s, population) ==
    /\ Len(s) = Len(population)
    /\ \A i \in 1..(Len(s) - 1) : s[i] <= s[i + 1]
    /\ \A x \in Range(population) \cup Range(s) :
          Cardinality({k \in DOMAIN s : s[k] = x})
              = Cardinality({k \in DOMAIN population : population[k] = x})

\* C20: calculatePercentile(score, allScores) is round(i / len(allScores) * 100)
\* with i the first (0-based) index of the ascending sort of allScores whose
\* value is >= score, and 100 when there is no such index; the result is an
\* integer between 0 and 100.
C20_PercentileFormula ==
    (mergePc = "ranked" /\ MergedScores # <<>>) =>
        LET sorted == CHOOSE s \in [DOMAIN MergedScores -> Range(MergedScores)] :
                          IsAscendingSortOf(s, MergedScores)
            n == Len(MergedScores)
        IN \A score \in ProbeScores :
              LET result == calculatePercentile(score, MergedScores)
                  atOrAbove == {k \in 1..n : sorted[k] >= score}
              IN /\ result \in 0..100
                 /\ atOrAbove = {} => result = 100
                 /\ atOrAbove # {} =>
                       \E k \in atOrAbove :
                          /\ \A m \in atOrAbove : k <= m
                          \* result = round(100 * (k - 1) / n), halves upwards
                          /\ 2 * n * result <= 200 * (k - 1) + n
                          /\ 200 * (k - 1) + n < 2 * n * (result + 1)

\* a ranked population given out of order, with a member whose share rounds
\* up from an exact half (1/8, 3/8, ...)
C20_Witness ==
    /\ mergePc = "ranked"
    /\ \E i \in 1..(Len(MergedScores) - 1) : MergedScores[i] > MergedScores[i + 1]
    /\ \E i \in DOMAIN optimizedSegments :
          LET score == optimizedSegments[i].aggregatedScore
              below == Cardinality({k \in DOMAIN MergedScores : MergedScores[k] < score})
          IN /\ (200 * below) % (2 * Len(MergedScores)) = Len(MergedScores)
             /\ calculatePercentile(score, MergedScores) * Len(MergedScores)
                    > 100 * below

(***************************************************************************)
(* AnalysisService: scoring the segments, in one request or in batches     *)
(***************************************************************************)
MAX_TOKENS_PER_REQUEST == 3000

TextLengths == {2000, 6000}
BatchScores == {4, 8}
BatchTopics == {<<"x">>, <<"x", "y">>}
ResponseShapes == {"exact", "short"}

\* Math.ceil(text.length / 4), on the length of the text
estimateTokens(length) == (length + 3) \div 4

\* length of the prompt of buildContextPrompt: a header of about 80 characters,
\* then for every segment about 60 characters of labels around its text
buildContextPromptLength(segments) ==
    80 + SumSeq([i \in DOMAIN segments |-> 60 + segments[i].textLength])

Max2(a, b) == IF a > b THEN a ELSE b

\* faulty variant: a third of the segments, rounded up
batchSizeOf_Ceil(n) == Max2(1, (n + 2) \div 3)

\* Math.max(1, Math.floor(segments.length / 3))
batchSizeOf(n) == Max2(1, n \div 3)

\* for (i = 0; i < segments.length; i += batchSize) batches.push(slice(i, i + batchSize)),
\* with i counted from 1
RECURSIVE sliceBatches(_, _, _)
sliceBatches(segments, i, batchSize) ==
    IF i > Len(segments) THEN <<>>
    ELSE <<SubSeq(segments, i, Min2(i + batchSize - 1, Len(segments)))>>
         \o sliceBatches(segments, i + batchSize, batchSize)

\* Array.prototype.join(' ') over texts kept as sequences of words
RECURSIVE joinWithSpace(_)
joinWithSpace(texts) ==
    IF texts = <<>> THEN <<>>
    ELSE IF Len(texts) = 1 THEN texts[1]
    ELSE texts[1] \o <<" ">> \o joinWithSpace(Tail(texts))

\* faulty variant: the batch results are concatenated last batch first
mergeBatchResults_LastFirst(results) ==
    LET reversed == [k \in DOMAIN results |-> results[Len(results) + 1 - k]]
    IN [segments |-> FlatMap([k \in DOMAIN reversed |-> reversed[k].segments]),
        overallSummary |-> joinWithSpace([k \in DOMAIN results |-> results[k].overallSummary]),
        mainTopics |-> Dedup(FlatMap([k \in DOMAIN results |-> results[k].mainTopics]))]

mergeBatchResults(results) ==
    [segments |-> FlatMap([k \in DOMAIN results |-> results[k].segments]),
     overallSummary |-> joinWithSpace([k \in DOMAIN results |-> results[k].overallSummary]),
     mainTopics |-> Dedup(FlatMap([k \in DOMAIN results |-> results[k].mainTopics]))]

\* what the LLM returns for one request: one entry per segment of the request
\* in request order ("exact"), or a list that misses the last segment ("short")
llmResponse(batch, k, shape, score, topics) ==
    LET entries == [i \in DOMAIN batch |->
                       [segmentId |-> batch[i].id, informativenessScore |-> score]]
    IN [segments |-> IF shape = "exact" THEN entries
                     ELSE SubSeq(entries, 1, Len(entries) - 1),
        overallSummary |-> <<"summary", ToString(k)>>,
        mainTopics |-> topics]

InitScoring ==
    /\ analyzedSegments = <<>>
    /\ \E maxDur \in MaxDurations, minScore \in MinScores :
         analysisConfig = [maxCombinedDuration |-> maxDur,
                           minInformativenessScore |-> minScore]
    /\ mergePc = "input"
    /\ mergedSegments = <<>>
    /\ optimizedSegments = <<>>
    /\ \E n \in 1..MaxScored, textLength \in TextLengths :
         scoring = [NoScoring EXCEPT
                       !.pc = "start",
                       !.segments = [i \in 1..n |-> [id |-> i, textLength |-> textLength]]]
    /\ clipping = NoClipping
    /\ NoPipeline

\* batchAnalyzeSegments up to the first request; processSegmentsInBatches up
\* to its first request
BatchAnalyzeSegments ==
    /\ scoring.pc = "start"
    /\ LET estimatedTokens == estimateTokens(buildContextPromptLength(scoring.segments))
       IN IF estimatedTokens <= MAX_TOKENS_PER_REQUEST
          THEN scoring' = [scoring EXCEPT !.pc = "single",
                                          !.batches = <<scoring.segments>>]
          ELSE scoring' = [scoring EXCEPT
                              !.pc = "batches",
                              !.batches = sliceBatches(scoring.segments, 1,
                                              batchSizeOf(Len(scoring.segments)))]
    /\ UNCHANGED <<analyzedSegments, analysisConfig, mergePc, mergedSegments,
                   optimizedSegments, clipping>>
    /\ UNCHANGED pipeVars

\* processSegmentsBatch: the request for the next batch returns; after the
\* last one the results are merged (or, for a single request, returned as is)
ProcessSegmentsBatch(shape, score, topics) ==
    /\ scoring.pc \in {"single", "batches"}
    /\ Len(scoring.batchResults) < Len(scoring.batches)
    /\ LET k == Len(scoring.batchResults) + 1
           batchResults == Append(scoring.batchResults,
                                  llmResponse(scoring.batches[k], k, shape, score, topics))
       IN IF k < Len(scoring.batches)
          THEN scoring' = [scoring EXCEPT !.batchResults = batchResults]
          ELSE scoring' = [scoring EXCEPT
                              !.batchResults = batchResults,
                              !.pc = "done",
                              !.response = IF scoring.pc = "single" THEN batchResults[1]
                                           ELSE mergeBatchResults(batchResults)]
    /\ UNCHANGED <<analyzedSegments, analysisConfig, mergePc, mergedSegments,
                   optimizedSegments, clipping>>
    /\ UNCHANGED pipeVars

\* the request throws: the error leaves batchAnalyzeSegments
ProcessSegmentsBatchThrows ==
    /\ scoring.pc \in {"single", "batches"}
    /\ Len(scoring.batchResults) < Len(scoring.batches)
    /\ scoring' = [scoring EXCEPT !.pc = "failed"]
    /\ UNCHANGED <<analyzedSegments, analysisConfig, mergePc, mergedSegments,
                   optimizedSegments, clipping>>
    /\ UNCHANGED pipeVars

NextScoring ==
    \/ BatchAnalyzeSegments
    \/ \E shape \in ResponseShapes, score \in BatchScores, topics \in BatchTopics :
          ProcessSegmentsBatch(shape, score, topics)
    \/ ProcessSegmentsBatchThrows

SpecScoring == InitScoring /\ [][NextScoring]_vars

(***************************************************************************)
(* Scoring properties                                                      *)
(***************************************************************************)
WellFormed(k) ==
    /\ Len(scoring.batchResults[k].segments) = Len(scoring.batches[k])
    /\ \A i \in DOMAIN scoring.batches[k] :
          scoring.batchResults[k].segments[i].segmentId = scoring.batches[k][i].id

\* C21: when the segments exceed the token budget and are scored in batches,
\* each batch response holding one entry per segment of its batch in batch
\* order, the merged response has exactly as many entries as the input segment
\* list and its i-th entry belongs to the i-th input segment.
C21_BatchOrderAndCount ==
    (/\ scoring.pc = "done"
     /\ Len(scoring.batches) > 1
     /\ \A k \in DOMAIN scoring.batchResults : WellFormed(k))
    => /\ Len(scoring.response.segments) = Len(scoring.segments)
       /\ \A i \in DOMAIN scoring.segments :
             scoring.response.segments[i].segmentId = scoring.segments[i].id

\* an over-budget list scored in batches of more than one segment, the last
\* batch shorter than the others, every response well formed
C21_Witness ==
    /\ scoring.pc = "done"
    /\ estimateTokens(buildContextPromptLength(scoring.segments)) > MAX_TOKENS_PER_REQUEST
    /\ Len(scoring.batches) > 1
    /\ Len(scoring.batches[1]) > 1
    /\ Len(scoring.batches[Len(scoring.batches)]) < Len(scoring.batches[1])
    /\ \A k \in DOMAIN scoring.batchResults : WellFormed(k)
    /\ Len(scoring.response.segments) = Len(scoring.segments)

OverBudget ==
    /\ scoring.pc \in {"batches", "done", "failed"}
    /\ estimateTokens(buildContextPromptLength(scoring.segments)) > MAX_TOKENS_PER_REQUEST

C23_MergedWithinBudget ==
    mergePc = "ranked" =>
        \A i \in DOMAIN mergedSegments :
            Len(mergedSegments[i].combinedSegmentIds) >= 2 =>
                timeToSeconds(mergedSegments[i].endTime)
                    - timeToSeconds(mergedSegments[i].startTime)
                        <= analysisConfig.maxCombinedDuration

\* a group that fills the budget exactly and is followed by a segment its
\* last member asked to be combined with
C23_Witness ==
    /\ mergePc = "ranked"
    /\ \E i \in DOMAIN mergedSegments :
          LET ids == mergedSegments[i].combinedSegmentIds
          IN /\ Len(ids) >= 2
             /\ timeToSeconds(mergedSegments[i].endTime)
                    - timeToSeconds(mergedSegments[i].startTime)
                        = analysisConfig.maxCombinedDuration
             /\ ids[Len(ids)] < Len(analyzedSegments)
             /\ analyzedSegments[ids[Len(ids)]].shouldCombineWithNext

\* C24: merging a single segment yields an optimized segment identical in
\* content to it: same id, start and end times, duration, title, summary and
\* key topics, combinedSegmentIds the one-element list of its id, and
\* aggregatedScore equal to its own informativeness score (kept in tenths).
C24_SingleSegmentUnchanged ==
    mergePc = "ranked" =>
        \A i \in DOMAIN mergedSegments :
            Len(mergedSegments[i].combinedSegmentIds) = 1 =>
                LET merged == mergedSegments[i]
                    segment == analyzedSegments[merged.combinedSegmentIds[1]]
                IN /\ merged.id = segment.segmentId
                   /\ merged.startTime = segment.startTime
                   /\ merged.endTime = segment.endTime
                   /\ merged.duration = segment.duration
                   /\ merged.finalTitle = segment.title
                   /\ merged.finalSummary = segment.summary
                   /\ merged.finalKeyTopics = segment.keyTopics
                   /\ merged.combinedSegmentIds = <<segment.segmentId>>
                   /\ merged.aggregatedScore = segment.informativenessScore * 10

\* a transcript of one segment, merged
C24_Witness ==
    /\ mergePc = "ranked"
    /\ Len(analyzedSegments) = 1
    /\ Len(mergedSegments) = 1
    /\ mergedSegments[1].combinedSegmentIds = <<1>>

(***************************************************************************)
(* Member order: the same optimizeSegments step over a segment list handed *)
(* over in any order, so that groups collect their members out of time     *)
(* order                                                                   *)
(***************************************************************************)
OrderScores == {4, 8}

InitOrder ==
    /\ \E n \in 1..MaxSegs :
         \E durs \in [1..n -> Durations], scores \in [1..n -> OrderScores],
            flag \in BOOLEAN, perm \in Permutations(1..n) :
             LET inTime == MkSegments(durs, scores, [k \in 1..n |-> flag], "same")
             IN analyzedSegments = [k \in 1..n |-> inTime[perm[k]]]
    /\ \E maxDur \in MaxDurations, minScore \in MinScores :
         analysisConfig = [maxCombinedDuration |-> maxDur,
                           minInformativenessScore |-> minScore]
    /\ mergePc = "input"
    /\ mergedSegments = <<>>
    /\ optimizedSegments = <<>>
    /\ scoring = NoScoring
    /\ clipping = NoClipping
    /\ NoPipeline

SpecOrder == InitOrder /\ [][NextMerge]_vars

SegmentById(id) ==
    CHOOSE segment \in Range(analyzedSegments) : segment.segmentId = id

\* C25: for every merged group, whatever the order in which its members were
\* collected, combinedSegmentIds lists the members in ascending start-time
\* order, startTime is the start of the earliest member, endTime is the end of
\* the member that starts last, and duration equals endTime minus startTime.
C25_MembersInTimeOrder ==
    mergePc = "ranked" =>
        \A i \in DOMAIN mergedSegments :
            LET merged == mergedSegments[i]
                ids == merged.combinedSegmentIds
                StartOf(id) == timeToSeconds(SegmentById(id).startTime)
            IN /\ \A a, b \in DOMAIN ids : a < b => StartOf(ids[a]) <= StartOf(ids[b])
               /\ \E id \in Range(ids) :
                     /\ \A other \in Range(ids) : StartOf(id) <= StartOf(other)
                     /\ merged.startTime = SegmentById(id).startTime
               /\ \E id \in Range(ids) :
                     /\ \A other \in Range(ids) : StartOf(other) <= StartOf(id)
                     /\ merged.endTime = SegmentById(id).endTime
               /\ merged.duration = timeToSeconds(merged.endTime)
                                      - timeToSeconds(merged.startTime)

\* a group whose members were collected latest first
C25_Witness ==
    /\ mergePc = "ranked"
    /\ Len(analyzedSegments) = 3
    /\ [k \in 1..3 |-> analyzedSegments[k].segmentId] = <<3, 1, 2>>
    /\ \E i \in DOMAIN mergedSegments :
          mergedSegments[i].combinedSegmentIds = <<1, 2, 3>>

(***************************************************************************)
(* Aggregated score: the same optimizeSegments step over segments of every *)
(* score from 1 to 10 that all merge into one group                        *)
(***************************************************************************)
AggregateScores == 1..10
AggregateDurations == {30}
AggregateBudgets == {150}

InitAggregate ==
    /\ \E n \in 1..MaxSegs :
         \E durs \in [1..n -> AggregateDurations], scores \in [1..n -> AggregateScores] :
             analyzedSegments = MkSegments(durs, scores, [k \in 1..n |-> TRUE], "same")
    /\ \E maxDur \in AggregateBudgets, minScore \in MinScores :
         analysisConfig = [maxCombinedDuration |-> maxDur,
                           minInformativenessScore |-> minScore]
    /\ mergePc = "input"
    /\ mergedSegments = <<>>
    /\ optimizedSegments = <<>>
    /\ scoring = NoScoring
    /\ clipping = NoClipping
    /\ NoPipeline

SpecAggregate == InitAggregate /\ [][NextMerge]_vars

MemberScores(merged) ==
    [k \in DOMAIN merged.combinedSegmentIds |->
        SegmentById(merged.combinedSegmentIds[k]).informativenessScore]

\* C26: the aggregated score of a group is the average of the member scores
\* weighted by score^1.5, rounded to one decimal; for scores [7, 8, 9] it is
\* strictly between 8 and 9 (8.1), and for a single score it is that score.
\* (aggregatedScore in tenths; the weights at four decimals.)
C26_WeightedAverage ==
    mergePc = "ranked" =>
        \A i \in DOMAIN mergedSegments :
            LET scores == MemberScores(mergedSegments[i])
                agg == mergedSegments[i].aggregatedScore
                totalWeight == SumSeq([k \in DOMAIN scores |-> Pow15(scores[k])])
                weightedSum == SumSeq([k \in DOMAIN scores |-> scores[k] * Pow15(scores[k])])
            IN /\ Len(scores) = 1 => agg = scores[1] * 10
               \* agg / 10 - 0.05 <= weightedSum / totalWeight < agg / 10 + 0.05
               /\ Len(scores) > 1 =>
                     /\ (2 * agg - 1) * totalWeight <= 20 * weightedSum
                     /\ 20 * weightedSum < (2 * agg + 1) * totalWeight
               /\ scores = <<7, 8, 9>> => (agg > 80 /\ agg < 90 /\ agg = 81)

\* the group of the segments scored 7, 8, 9
C26_Witness ==
    /\ mergePc = "ranked"
    /\ Len(mergedSegments) = 1
    /\ MemberScores(mergedSegments[1]) = <<7, 8, 9>>
    /\ mergedSegments[1].aggregatedScore = 81

(***************************************************************************)
(* Pipeline: documents and queues                                          *)
(***************************************************************************)
\* attempts: 3 of every queue.add call
Attempts == 3

NoError == [stage |-> "none", message |-> <<>>]
NoMetric == [status |-> "none", message |-> <<>>]
NoOpts == [maxClips |-> 0, minScoreThreshold |-> 0, maxCombinedDuration |-> 0]

\* processingConfiguration of an upload; NoConfig when the upload carries none
NoConfig ==
    [analysisConfig |-> [maxCombinedDuration |-> 0, minInformativenessScore |-> 0],
     clippingConfig |-> [maxClips |-> 0, minScoreThreshold |-> 0]]

Configs ==
    {[analysisConfig |-> [maxCombinedDuration |-> 90, minInformativenessScore |-> 0],
      clippingConfig |-> [maxClips |-> 1, minScoreThreshold |-> 5]]}

MimeTypes == {"video/mp4", "audio/mpeg", "text/plain"}
\* original file names, without their extension
OriginalNames == {"a", "b"}
UploadNames == {"a"}
isVideoFile(mimeType) == mimeType = "video/mp4"
isTranscribableFile(mimeType) == mimeType \in {"video/mp4", "audio/mpeg"}

\* durations of the segments the speech collaborator returns for a file
SampleDurations == {<<60, 30>>}
\* scores the scoring collaborator may give a segment
PipeScores == {4, 8}

\* a job as the queue holds it, with the locals of the process call running it
NewJob(queue, data, mimeType, opts) ==
    [queue |-> queue, data |-> data, mimeType |-> mimeType, opts |-> opts,
     state |-> "waiting", attemptsMade |-> 0, stalled |-> 0, requested |-> FALSE,
     pc |-> "idle", error |-> "none", loaded |-> 0, saved |-> 0,
     result |-> "none", resultDoc |-> 0, clipsCreated |-> 0,
     enqueueFailed |-> FALSE, enqueued |-> 0]

\* MaxJobs bounds the jobs per media item
CanAdd == Len(jobs) < MaxJobs * Max2(1, Len(files))

\* jobs added by a trigger endpoint rather than by the pipeline itself
Requested == {k \in DOMAIN jobs : jobs[k].requested}
CanRequest == CanAdd /\ Cardinality(Requested) < MaxRequests

Stalls == SumSeq([k \in DOMAIN jobs |-> jobs[k].stalled])

ActiveIn(queue) == {k \in DOMAIN jobs : jobs[k].queue = queue /\ jobs[k].state = "active"}

Running(j, queue, pc) ==
    /\ j \in DOMAIN jobs
    /\ jobs[j].queue = queue
    /\ jobs[j].state = "active"
    /\ jobs[j].pc = pc

\* what the queue does with a job once its process call has returned or thrown
Settle(job, threw) ==
    IF threw
    THEN IF job.attemptsMade + 1 < Attempts
         THEN [job EXCEPT !.state = "waiting", !.pc = "idle",
                          !.attemptsMade = @ + 1]
         ELSE [job EXCEPT !.state = "failed", !.pc = "idle",
                          !.attemptsMade = @ + 1]
    ELSE [job EXCEPT !.state = "completed", !.pc = "idle", !.loaded = 0, !.saved = 0]

\* a worker takes a waiting job and calls process
Deliver(j) ==
    /\ j \in DOMAIN jobs
    /\ jobs[j].state = "waiting"
    /\ Cardinality(ActiveIn(jobs[j].queue)) < Workers
    /\ jobs' = [jobs EXCEPT ![j] = [@ EXCEPT !.state = "active", !.pc = "begin",
                                             !.error = "none", !.loaded = 0, !.saved = 0,
                                             !.result = "none", !.resultDoc = 0,
                                             !.clipsCreated = 0,
                                             !.enqueueFailed = FALSE,
                                             !.enqueued = 0]]
    /\ UNCHANGED <<storage, uploads, files, history, transcripts, analyses, clips, clipFiles>>
    /\ UNCHANGED mergeVars

\* the worker dies in the middle of process: the queue puts the stalled job back
Redeliver(j) ==
    /\ j \in DOMAIN jobs
    /\ jobs[j].state = "active"
    /\ Stalls < MaxStalled
    /\ jobs' = [jobs EXCEPT ![j] = [@ EXCEPT !.state = "waiting", !.pc = "idle",
                                             !.stalled = @ + 1]]
    /\ UNCHANGED <<storage, uploads, files, history, transcripts, analyses, clips, clipFiles>>
    /\ UNCHANGED mergeVars

(***************************************************************************)
(* Request handlers                                                        *)
(***************************************************************************)
createProcessingHistory(config) ==
    [processingStatus |-> "pending", configuration |-> config,
     processingCompleted |-> FALSE, errorDetails |-> NoError, clipping |-> NoMetric]

\* faulty variant: a failed add of the transcription job fails the upload
uploadResult_QueueRethrow(fileId, recorded, queueFailed) ==
    IF queueFailed
    THEN [outcome |-> "failed", file |-> 0, processingHistory |-> FALSE,
          enqueueFailed |-> TRUE]
    ELSE [outcome |-> "ok", file |-> fileId, processingHistory |-> recorded,
          enqueueFailed |-> FALSE]

\* what uploadFile returns once the file and its processing history are saved
\* and queueTranscriptionJob has returned, whether or not its add succeeded
uploadResult(fileId, recorded, queueFailed) ==
    [outcome |-> "ok", file |-> fileId, processingHistory |-> recorded,
     enqueueFailed |-> queueFailed]

\* faulty variant, for rejected uploads: the file is handed to the storage
\* service before the language code is looked at
UploadFile_StoresFirst(hasFile, hasLanguage, originalName, mimeType, config, failAt, addOk) ==
    /\ Len(uploads) < MaxFiles
    /\ ~hasFile \/ ~hasLanguage
    /\ failAt = "none" /\ ~addOk
    /\ storage' = IF hasFile THEN storage \cup {Len(uploads) + 1} ELSE storage
    /\ uploads' = Append(uploads, [outcome |-> "bad_request", file |-> 0,
                                   processingHistory |-> FALSE,
                                   enqueueFailed |-> FALSE])
    /\ UNCHANGED <<files, history, jobs>>
    /\ UNCHANGED <<transcripts, analyses, clips, clipFiles>>
    /\ UNCHANGED mergeVars

\* FilesService.uploadFile; failAt names the call that throws, if any
UploadFile(hasFile, hasLanguage, originalName, mimeType, config, failAt, addOk) ==
    /\ Len(uploads) < MaxFiles
    /\ failAt = "metadata" => isVideoFile(mimeType)
    /\ failAt = "history" => (isTranscribableFile(mimeType) /\ config # NoConfig)
    /\ addOk => CanAdd
    /\ LET path == Len(uploads) + 1
           fileId == Len(files) + 1
           queued == isTranscribableFile(mimeType) /\ addOk
       IN IF ~hasFile \/ ~hasLanguage
          THEN /\ uploads' = Append(uploads, [outcome |-> "bad_request", file |-> 0,
                                              processingHistory |-> FALSE,
                                              enqueueFailed |-> FALSE])
               /\ UNCHANGED <<storage, files, history, jobs>>
          ELSE IF failAt = "storage"
          THEN /\ uploads' = Append(uploads, [outcome |-> "failed", file |-> 0,
                                              processingHistory |-> FALSE,
                                              enqueueFailed |-> FALSE])
               /\ UNCHANGED <<storage, files, history, jobs>>
          ELSE IF failAt \in {"metadata", "save"}
          THEN \* the cleanup unlinks file.originalname, not the stored path
               /\ storage' = storage \cup {path}
               /\ uploads' = Append(uploads, [outcome |-> "failed", file |-> 0,
                                              processingHistory |-> FALSE,
                                              enqueueFailed |-> FALSE])
               /\ UNCHANGED <<files, history, jobs>>
          ELSE IF failAt = "history"
          THEN /\ storage' = storage \cup {path}
               /\ files' = Append(files, [filePath |-> path, originalName |-> originalName,
                                          mimeType |-> mimeType])
               /\ uploads' = Append(uploads, [outcome |-> "failed", file |-> 0,
                                              processingHistory |-> FALSE,
                                              enqueueFailed |-> FALSE])
               /\ UNCHANGED <<history, jobs>>
          ELSE /\ storage' = storage \cup {path}
               /\ files' = Append(files, [filePath |-> path, originalName |-> originalName,
                                          mimeType |-> mimeType])
               /\ history' = IF isTranscribableFile(mimeType) /\ config # NoConfig
                             THEN history @@ (fileId :> createProcessingHistory(config))
                             ELSE history
               /\ jobs' = IF queued
                          THEN Append(jobs, NewJob("transcription", fileId, mimeType, NoOpts))
                          ELSE jobs
               /\ uploads' = Append(uploads,
                                uploadResult(fileId,
                                             isTranscribableFile(mimeType) /\ config # NoConfig,
                                             isTranscribableFile(mimeType) /\ ~addOk))
    /\ UNCHANGED <<transcripts, analyses, clips, clipFiles>>
    /\ UNCHANGED mergeVars

\* TranscriptionController.triggerTranscription
TriggerTranscription(fileId) ==
    /\ fileId \in DOMAIN files
    /\ CanRequest
    /\ jobs' = Append(jobs, [NewJob("transcription", fileId, files[fileId].mimeType, NoOpts)
                                EXCEPT !.requested = TRUE])
    /\ UNCHANGED <<storage, uploads, files, history, transcripts, analyses, clips, clipFiles>>
    /\ UNCHANGED mergeVars

\* AnalysisController.reRunAnalysis: any transcription id the caller sends
\* faulty variant: the re-run endpoint also resets the pipeline records
ReRunAnalysis_ResetsStatus(transcriptionId) ==
    /\ CanRequest
    /\ jobs' = Append(jobs, [NewJob("analysis", transcriptionId, "", NoOpts)
                                EXCEPT !.requested = TRUE])
    /\ history' = [f \in DOMAIN history |->
                      [history[f] EXCEPT !.processingStatus = "pending",
                                         !.errorDetails = NoError]]
    /\ UNCHANGED <<storage, uploads, files, transcripts, analyses, clips, clipFiles>>
    /\ UNCHANGED mergeVars

ReRunAnalysis(transcriptionId) ==
    /\ CanRequest
    /\ jobs' = Append(jobs, [NewJob("analysis", transcriptionId, "", NoOpts)
                                EXCEPT !.requested = TRUE])
    /\ UNCHANGED <<storage, uploads, files, history, transcripts, analyses, clips, clipFiles>>
    /\ UNCHANGED mergeVars

NoMerge ==
    /\ analyzedSegments = <<>>
    /\ analysisConfig = NoConfig.analysisConfig
    /\ mergePc = "idle"
    /\ mergedSegments = <<>>
    /\ optimizedSegments = <<>>
    /\ scoring = NoScoring
    /\ clipping = NoClipping

(***************************************************************************)
(* Transcription consumer (TranscriptionProcessor.process)                 *)
(***************************************************************************)
\* steps 1 and 2: convert video to audio, transcribe and segment; either
\* collaborator may throw
Transcribe(j, ok) ==
    /\ Running(j, "transcription", "begin")
    /\ jobs' = [jobs EXCEPT ![j] =
                   IF ok THEN [@ EXCEPT !.pc = "save"]
                   ELSE [@ EXCEPT !.pc = "catch",
                                  !.error = IF isVideoFile(jobs[j].mimeType)
                                            THEN "convert failed"
                                            ELSE "transcribe failed"]]
    /\ UNCHANGED <<storage, uploads, files, history, transcripts, analyses, clips, clipFiles>>
    /\ UNCHANGED mergeVars

\* faulty variant: the analysis job is added before the transcription is saved
SaveTranscription_QueuesFirst(j, durations, ok) ==
    /\ Running(j, "transcription", "save")
    /\ CanAdd
    /\ IF ok
       THEN /\ transcripts' = Append(transcripts,
                                 [fileId |-> jobs[j].data, status |-> "completed",
                                  durations |-> durations, error |-> "none"])
            /\ jobs' = Append([jobs EXCEPT ![j] =
                                  Settle([@ EXCEPT !.result = "completed",
                                                   !.resultDoc = Len(transcripts) + 1,
                                                   !.enqueued = Len(jobs) + 1], FALSE)],
                              NewJob("analysis", Len(transcripts) + 1, "", NoOpts))
       ELSE /\ jobs' = Append([jobs EXCEPT ![j] = [@ EXCEPT !.pc = "catch",
                                                            !.error = "save failed",
                                                            !.enqueued = Len(jobs) + 1]],
                              NewJob("analysis", Len(transcripts) + 1, "", NoOpts))
            /\ UNCHANGED transcripts
    /\ UNCHANGED <<storage, uploads, files, history, analyses, clips, clipFiles>>
    /\ UNCHANGED mergeVars

\* step 3: transcriptionService.createTranscription
SaveTranscription(j, durations, ok) ==
    /\ Running(j, "transcription", "save")
    /\ IF ok
       THEN /\ transcripts' = Append(transcripts,
                                 [fileId |-> jobs[j].data, status |-> "completed",
                                  durations |-> durations, error |-> "none"])
            /\ jobs' = [jobs EXCEPT ![j] = [@ EXCEPT !.pc = "queue",
                                                     !.saved = Len(transcripts) + 1]]
       ELSE /\ jobs' = [jobs EXCEPT ![j] = [@ EXCEPT !.pc = "catch",
                                                     !.error = "save failed"]]
            /\ UNCHANGED transcripts
    /\ UNCHANGED <<storage, uploads, files, history, analyses, clips, clipFiles>>
    /\ UNCHANGED mergeVars

\* faulty variant: a failed enqueue is rethrown into the catch block of process
QueueAnalysisJob_Rethrow(j, addOk) ==
    /\ Running(j, "transcription", "queue")
    /\ addOk => CanAdd
    /\ jobs' = IF addOk
               THEN Append([jobs EXCEPT ![j] =
                                Settle([@ EXCEPT !.result = "completed",
                                                 !.resultDoc = jobs[j].saved,
                                                 !.enqueued = Len(jobs) + 1], FALSE)],
                           NewJob("analysis", jobs[j].saved, "", NoOpts))
               ELSE [jobs EXCEPT ![j] = [@ EXCEPT !.enqueueFailed = TRUE,
                                                  !.pc = "catch",
                                                  !.error = "queue failed"]]
    /\ UNCHANGED <<storage, uploads, files, history, transcripts, analyses, clips, clipFiles>>
    /\ UNCHANGED mergeVars

\* step 4: queueAnalysisJob, then the return of process
QueueAnalysisJob(j, addOk) ==
    /\ Running(j, "transcription", "queue")
    /\ addOk => CanAdd
    /\ jobs' = IF addOk
               THEN Append([jobs EXCEPT ![j] =
                                Settle([@ EXCEPT !.result = "completed",
                                                 !.resultDoc = jobs[j].saved,
                                                 !.enqueued = Len(jobs) + 1], FALSE)],
                           NewJob("analysis", jobs[j].saved, "", NoOpts))
               ELSE [jobs EXCEPT ![j] =
                        Settle([@ EXCEPT !.result = "completed",
                                         !.resultDoc = jobs[j].saved,
                                         !.enqueueFailed = TRUE], FALSE)]
    /\ UNCHANGED <<storage, uploads, files, history, transcripts, analyses, clips, clipFiles>>
    /\ UNCHANGED mergeVars

\* faulty variant: the catch block also queues an analysis of the failed
\* transcription it has saved
TranscriptionFailed_QueuesAnalysis(j, saveOk) ==
    /\ Running(j, "transcription", "catch")
    /\ saveOk => CanAdd
    /\ IF saveOk
       THEN /\ transcripts' = Append(transcripts,
                                 [fileId |-> jobs[j].data, status |-> "failed",
                                  durations |-> <<>>, error |-> jobs[j].error])
            /\ jobs' = Append([jobs EXCEPT ![j] =
                                  Settle([@ EXCEPT !.result = "failed",
                                                   !.resultDoc = Len(transcripts) + 1], FALSE)],
                              NewJob("analysis", Len(transcripts) + 1, "", NoOpts))
       ELSE /\ jobs' = [jobs EXCEPT ![j] =
                           Settle([@ EXCEPT !.result = "failed", !.resultDoc = 0], FALSE)]
            /\ UNCHANGED transcripts
    /\ UNCHANGED <<storage, uploads, files, history, analyses, clips, clipFiles>>
    /\ UNCHANGED mergeVars

\* the catch block of process: createFailedTranscription, then the return
TranscriptionFailed(j, saveOk) ==
    /\ Running(j, "transcription", "catch")
    /\ IF saveOk
       THEN /\ transcripts' = Append(transcripts,
                                 [fileId |-> jobs[j].data, status |-> "failed",
                                  durations |-> <<>>, error |-> jobs[j].error])
            /\ jobs' = [jobs EXCEPT ![j] =
                           Settle([@ EXCEPT !.result = "failed",
                                            !.resultDoc = Len(transcripts) + 1], FALSE)]
       ELSE /\ jobs' = [jobs EXCEPT ![j] =
                           Settle([@ EXCEPT !.result = "failed", !.resultDoc = 0], FALSE)]
            /\ UNCHANGED transcripts
    /\ UNCHANGED <<storage, uploads, files, history, analyses, clips, clipFiles>>
    /\ UNCHANGED mergeVars


(***************************************************************************)
(* The upload endpoint and the transcription stage it feeds                *)
(***************************************************************************)
InitUpload == NoMerge /\ NoPipeline

NextUpload ==
    \/ \E hasFile \in BOOLEAN, hasLanguage \in BOOLEAN, originalName \in UploadNames,
          mimeType \in MimeTypes, config \in Configs \cup {NoConfig},
          failAt \in {"none", "storage", "metadata", "save", "history"},
          addOk \in BOOLEAN :
          UploadFile(hasFile, hasLanguage, originalName, mimeType, config, failAt, addOk)
    \/ \E j \in DOMAIN jobs : jobs[j].queue = "transcription" /\ Deliver(j)
    \/ \E j \in DOMAIN jobs, ok \in BOOLEAN : Transcribe(j, ok)
    \/ \E j \in DOMAIN jobs, durations \in SampleDurations, ok \in BOOLEAN :
          SaveTranscription(j, durations, ok)
    \/ \E j \in DOMAIN jobs, addOk \in BOOLEAN : QueueAnalysisJob(j, addOk)
    \/ \E j \in DOMAIN jobs, saveOk \in BOOLEAN : TranscriptionFailed(j, saveOk)

SpecUpload == InitUpload /\ [][NextUpload]_vars

(***************************************************************************)
(* Analysis consumer (AnalysisProcessor.process)                           *)
(***************************************************************************)
\* AnalysisProcessor.updateProcessingStatus, applied to one history document
analysisUpdateProcessingStatus(h, status, message) ==
    [h EXCEPT !.processingStatus = status,
              !.processingCompleted = IF status = "completed" THEN TRUE ELSE @,
              !.errorDetails = IF status = "failed"
                               THEN [stage |-> "analysis", message |-> message]
                               ELSE @]

\* what the OptimizedSegment schema keeps of a segment handed to create: the
\* schema declares no rank path, so the strict document drops it
storeOptimizedSegment(segment) ==
    [id |-> segment.id,
     startTime |-> segment.startTime,
     endTime |-> segment.endTime,
     duration |-> segment.duration,
     combinedSegmentIds |-> segment.combinedSegmentIds,
     aggregatedScore |-> segment.aggregatedScore,
     finalTitle |-> segment.finalTitle,
     finalSummary |-> segment.finalSummary,
     finalKeyTopics |-> segment.finalKeyTopics,
     extractionPriority |-> segment.extractionPriority]

storeOptimizedSegments(segments) ==
    [i \in DOMAIN segments |-> storeOptimizedSegment(segments[i])]

\* faulty variant: the record is marked completed as soon as the job starts
BeginAnalysis_MarksCompleted(j) ==
    /\ Running(j, "analysis", "begin")
    /\ jobs[j].data \in DOMAIN transcripts
    /\ transcripts[jobs[j].data].fileId \in DOMAIN history
    /\ history' = [history EXCEPT ![transcripts[jobs[j].data].fileId] =
                      analysisUpdateProcessingStatus(@, "completed",
                                                     <<"Analysis started">>)]
    /\ jobs' = [jobs EXCEPT ![j] = [@ EXCEPT !.pc = "analyze", !.loaded = jobs[j].data]]
    /\ UNCHANGED <<storage, uploads, files, transcripts, analyses, clips, clipFiles>>
    /\ UNCHANGED mergeVars

\* load the transcription and the processing history, mark the analysis started
BeginAnalysis(j) ==
    /\ Running(j, "analysis", "begin")
    /\ LET transcriptionId == jobs[j].data
       IN IF transcriptionId \notin DOMAIN transcripts
          THEN /\ jobs' = [jobs EXCEPT ![j] = [@ EXCEPT !.pc = "catch",
                                                        !.error = "Transcription not found"]]
               /\ UNCHANGED history
          ELSE IF transcripts[transcriptionId].fileId \notin DOMAIN history
          THEN /\ jobs' = [jobs EXCEPT ![j] = [@ EXCEPT !.pc = "catch",
                                                        !.loaded = transcriptionId,
                                                        !.error = "Processing history not found"]]
               /\ UNCHANGED history
          ELSE /\ history' = [history EXCEPT ![transcripts[transcriptionId].fileId] =
                                 analysisUpdateProcessingStatus(@, "analysis",
                                                                <<"Analysis started">>)]
               /\ jobs' = [jobs EXCEPT ![j] = [@ EXCEPT !.pc = "analyze",
                                                        !.loaded = transcriptionId]]
    /\ UNCHANGED <<storage, uploads, files, transcripts, analyses, clips, clipFiles>>
    /\ UNCHANGED mergeVars

\* analysisService.analyzeSegments with the scores the scorer returns, then
\* analysisResultModel.create
AnalyzeAndSave(j, scores, ok) ==
    /\ Running(j, "analysis", "analyze")
    /\ LET transcription == transcripts[jobs[j].loaded]
           configuration == history[transcription.fileId].configuration
           analyzed == MkSegments(transcription.durations, scores,
                                  [k \in DOMAIN scores |-> FALSE], "same")
       IN /\ DOMAIN scores = DOMAIN transcription.durations
          /\ IF ok
             THEN /\ analyses' = Append(analyses,
                                    [processingId |-> transcription.fileId,
                                     fileId |-> transcription.fileId,
                                     transcriptionId |-> jobs[j].loaded,
                                     analyzedSegments |-> analyzed,
                                     optimizedSegments |->
                                         storeOptimizedSegments(
                                             optimizeSegments(analyzed,
                                                              configuration.analysisConfig))])
                  /\ jobs' = [jobs EXCEPT ![j] = [@ EXCEPT !.pc = "complete",
                                                           !.saved = Len(analyses) + 1]]
             ELSE /\ jobs' = [jobs EXCEPT ![j] = [@ EXCEPT !.pc = "catch",
                                                           !.error = "analysis failed"]]
                  /\ UNCHANGED analyses
    /\ UNCHANGED <<storage, uploads, files, history, transcripts, clips, clipFiles>>
    /\ UNCHANGED mergeVars

\* updateProcessingStatus(..., 'completed', ...)
CompleteAnalysis(j) ==
    /\ Running(j, "analysis", "complete")
    /\ history' = [history EXCEPT ![transcripts[jobs[j].loaded].fileId] =
                      analysisUpdateProcessingStatus(@, "completed",
                                                     <<"Analysis completed successfully">>)]
    /\ jobs' = [jobs EXCEPT ![j] = [@ EXCEPT !.pc = "trigger"]]
    /\ UNCHANGED <<storage, uploads, files, transcripts, analyses, clips, clipFiles>>
    /\ UNCHANGED mergeVars

\* faulty variant: the comparison the wrong way round
highValueSegments_Inverted(analysisResult, configuration) ==
    SelectSeq(analysisResult.optimizedSegments,
              LAMBDA segment : segment.aggregatedScore
                                   < effectiveMinScore(configuration.analysisConfig) * 10)

highValueSegments(analysisResult, configuration) ==
    SelectSeq(analysisResult.optimizedSegments,
              LAMBDA segment : segment.aggregatedScore
                                   >= effectiveMinScore(configuration.analysisConfig) * 10)

\* faulty variant: a failed enqueue of the clipping job is rethrown into the
\* catch block of process
TriggerAutoClipping_Rethrow(j, addOk) ==
    /\ Running(j, "analysis", "trigger")
    /\ LET analysisResult == analyses[jobs[j].saved]
           configuration == history[analysisResult.processingId].configuration
           wanted == Len(highValueSegments(analysisResult, configuration)) > 0
       IN /\ addOk => (wanted /\ CanAdd)
          /\ jobs' = IF addOk
                     THEN Append([jobs EXCEPT ![j] =
                                      Settle([@ EXCEPT !.result = "completed",
                                                       !.resultDoc = jobs[j].saved,
                                                       !.enqueued = Len(jobs) + 1], FALSE)],
                                 NewJob("clipping", jobs[j].saved, "",
                                        [maxClips |-> configuration.clippingConfig.maxClips,
                                         minScoreThreshold |->
                                             configuration.clippingConfig.minScoreThreshold,
                                         maxCombinedDuration |-> 0]))
                     ELSE IF wanted
                     THEN [jobs EXCEPT ![j] = [@ EXCEPT !.enqueueFailed = TRUE,
                                                        !.pc = "catch",
                                                        !.error = "queue failed"]]
                     ELSE [jobs EXCEPT ![j] =
                              Settle([@ EXCEPT !.result = "completed",
                                               !.resultDoc = jobs[j].saved], FALSE)]
    /\ UNCHANGED <<storage, uploads, files, history, transcripts, analyses, clips, clipFiles>>
    /\ UNCHANGED mergeVars

\* triggerAutoClipping, then the return of process
TriggerAutoClipping(j, addOk) ==
    /\ Running(j, "analysis", "trigger")
    /\ LET analysisResult == analyses[jobs[j].saved]
           configuration == history[analysisResult.processingId].configuration
           wanted == Len(highValueSegments(analysisResult, configuration)) > 0
       IN /\ addOk => (wanted /\ CanAdd)
          /\ jobs' = IF addOk
                     THEN Append([jobs EXCEPT ![j] =
                                      Settle([@ EXCEPT !.result = "completed",
                                                       !.resultDoc = jobs[j].saved,
                                                       !.enqueued = Len(jobs) + 1], FALSE)],
                                 NewJob("clipping", jobs[j].saved, "",
                                        [maxClips |-> configuration.clippingConfig.maxClips,
                                         minScoreThreshold |->
                                             configuration.clippingConfig.minScoreThreshold,
                                         maxCombinedDuration |-> 0]))
                     ELSE [jobs EXCEPT ![j] =
                              Settle([@ EXCEPT !.result = "completed",
                                               !.resultDoc = jobs[j].saved,
                                               !.enqueueFailed = wanted], FALSE)]
    /\ UNCHANGED <<storage, uploads, files, history, transcripts, analyses, clips, clipFiles>>
    /\ UNCHANGED mergeVars

\* the catch block of process
AnalysisFailed(j) ==
    /\ Running(j, "analysis", "catch")
    /\ LET fileId == IF jobs[j].loaded # 0 THEN transcripts[jobs[j].loaded].fileId ELSE 0
       IN history' = IF fileId \in DOMAIN history
                     THEN [history EXCEPT ![fileId] =
                              analysisUpdateProcessingStatus(
                                  @, "failed", <<"Analysis failed: ", jobs[j].error>>)]
                     ELSE history
    /\ jobs' = [jobs EXCEPT ![j] = Settle([@ EXCEPT !.result = "failed",
                                                    !.resultDoc = 0], FALSE)]
    /\ UNCHANGED <<storage, uploads, files, transcripts, analyses, clips, clipFiles>>
    /\ UNCHANGED mergeVars


(***************************************************************************)
(* Clipping consumer (ClippingProcessor.process)                           *)
(***************************************************************************)
\* faulty variant: the update also writes the stage into processingStatus
clippingUpdateProcessingStatus_SetsStatus(h, stage, message) ==
    [h EXCEPT !.processingStatus = stage,
              !.clipping = [status |-> IF stage = "clipping" THEN "completed"
                                       ELSE "in_progress",
                            message |-> message]]

\* ClippingProcessor.updateProcessingStatus: only processing_metrics.<stage>
\* is set, and for the stage 'clipping' its status is always 'completed'
clippingUpdateProcessingStatus(h, stage, message) ==
    [h EXCEPT !.clipping = [status |-> IF stage = "clipping" THEN "completed"
                                       ELSE "in_progress",
                            message |-> message]]

\* an optimized segment as the clipping processor reads it from the analysis
\* document: aggregatedScore becomes the fraction num / den of tenths, rank is
\* <<>> when the document has none, the id is a sequence of parts
loadOptimizedSegment(segment) ==
    [id |-> <<segment.id>>,
     startTime |-> segment.startTime,
     endTime |-> segment.endTime,
     duration |-> segment.duration,
     combinedSegmentIds |-> segment.combinedSegmentIds,
     aggregatedScore |-> [num |-> segment.aggregatedScore, den |-> 1],
     finalTitle |-> segment.finalTitle,
     finalSummary |-> segment.finalSummary,
     finalKeyTopics |-> segment.finalKeyTopics,
     extractionPriority |-> segment.extractionPriority,
     rank |-> IF "rank" \in DOMAIN segment THEN <<segment.rank>> ELSE <<>>]

calculateOptimizedGroupDuration(segments) ==
    SumSeq([i \in DOMAIN segments |-> segments[i].duration])

shouldCombineSegment(segment, currentGroup, maxCombinedDuration) ==
    IF Len(currentGroup) = 0 THEN TRUE
    ELSE calculateOptimizedGroupDuration(currentGroup) + segment.duration
             <= maxCombinedDuration

MaxOf(s) == CHOOSE x \in Range(s) : \A y \in Range(s) : y <= x
MinOf(s) == CHOOSE x \in Range(s) : \A y \in Range(s) : x <= y

\* the segments of a group are stored ones (den = 1)
combineOptimizedSegments(segments) ==
    IF Len(segments) = 1 THEN segments[1]
    ELSE LET firstSegment == segments[1]
             lastSegment == segments[Len(segments)]
             totalDuration == calculateOptimizedGroupDuration(segments)
             totalScore == SumSeq([i \in DOMAIN segments |->
                                      segments[i].aggregatedScore.num
                                          * segments[i].duration])
         IN [id |-> firstSegment.id \o <<"_combined_", Len(segments)>>,
             startTime |-> firstSegment.startTime,
             endTime |-> lastSegment.endTime,
             duration |-> totalDuration,
             combinedSegmentIds |-> FlatMap([i \in DOMAIN segments |->
                                                segments[i].combinedSegmentIds]),
             aggregatedScore |-> [num |-> totalScore, den |-> totalDuration],
             finalTitle |-> FlatMap([i \in DOMAIN segments |->
                                        IF i = 1 THEN segments[i].finalTitle
                                        ELSE <<" | ">> \o segments[i].finalTitle]),
             finalSummary |-> FlatMap([i \in DOMAIN segments |->
                                          IF i = 1 THEN segments[i].finalSummary
                                          ELSE <<" ">> \o segments[i].finalSummary]),
             finalKeyTopics |-> Dedup(FlatMap([i \in DOMAIN segments |->
                                                  segments[i].finalKeyTopics])),
             extractionPriority |-> MaxOf([i \in DOMAIN segments |->
                                              segments[i].extractionPriority]),
             \* Math.min over a rank that is undefined is NaN
             rank |-> IF \A i \in DOMAIN segments : segments[i].rank # <<>>
                      THEN <<MinOf([i \in DOMAIN segments |-> segments[i].rank[1]])>>
                      ELSE <<>>]

RECURSIVE reoptimizeLoop(_, _, _, _, _)
reoptimizeLoop(optimizedSegs, i, reoptimized, currentGroup, maxCombinedDuration) ==
    IF i > Len(optimizedSegs)
    THEN IF Len(currentGroup) > 0
         THEN Append(reoptimized, combineOptimizedSegments(currentGroup))
         ELSE reoptimized
    ELSE IF shouldCombineSegment(optimizedSegs[i], currentGroup, maxCombinedDuration)
         THEN reoptimizeLoop(optimizedSegs, i + 1, reoptimized,
                             Append(currentGroup, optimizedSegs[i]),
                             maxCombinedDuration)
         ELSE reoptimizeLoop(optimizedSegs, i + 1,
                             IF Len(currentGroup) > 0
                             THEN Append(reoptimized,
                                         combineOptimizedSegments(currentGroup))
                             ELSE reoptimized,
                             <<optimizedSegs[i]>>, maxCombinedDuration)

reoptimizeSegmentsWithDuration(optimizedSegs, maxCombinedDuration) ==
    reoptimizeLoop(optimizedSegs, 1, <<>>, <<>>, maxCombinedDuration)

\* faulty variant: every segment at or above the threshold is returned
prepareSegmentsForClipping_NoLimit(optimizedSegs, maxClips, minScoreThreshold) ==
    LET filteredSegments ==
            SelectSeq(optimizedSegs,
                      LAMBDA segment : segment.aggregatedScore.num
                                           >= minScoreThreshold * 10
                                                  * segment.aggregatedScore.den)
    IN SortByKeys(filteredSegments,
                  [i \in DOMAIN filteredSegments |->
                       0 - filteredSegments[i].extractionPriority])

\* minScoreThreshold in score units
prepareSegmentsForClipping(optimizedSegs, maxClips, minScoreThreshold) ==
    LET filteredSegments ==
            SelectSeq(optimizedSegs,
                      LAMBDA segment : segment.aggregatedScore.num
                                           >= minScoreThreshold * 10
                                                  * segment.aggregatedScore.den)
        sortedSegments ==
            SortByKeys(filteredSegments,
                       [i \in DOMAIN filteredSegments |->
                            0 - filteredSegments[i].extractionPriority])
    IN SubSeq(sortedSegments, 1, Min2(maxClips, Len(sortedSegments)))

\* steps 4 and 5 of process for a job and the analysis document it names; an
\* option of 0 is one the job data does not carry
segmentsToClipOf(job, analysisRecord) ==
    LET maxClips == IF job.opts.maxClips = 0 THEN 10 ELSE job.opts.maxClips
        minScoreThreshold == IF job.opts.minScoreThreshold = 0 THEN 6
                             ELSE job.opts.minScoreThreshold
        stored == [i \in DOMAIN analysisRecord.optimizedSegments |->
                      loadOptimizedSegment(analysisRecord.optimizedSegments[i])]
        segmentsToUse == IF job.opts.maxCombinedDuration # 0
                         THEN reoptimizeSegmentsWithDuration(
                                  stored, job.opts.maxCombinedDuration)
                         ELSE stored
    IN prepareSegmentsForClipping(segmentsToUse, maxClips, minScoreThreshold)

\* steps 1 to 3: load the analysis, its history and file, mark clipping started
BeginClipping(j) ==
    /\ Running(j, "clipping", "begin")
    /\ LET analysisId == jobs[j].data
       IN IF analysisId \notin DOMAIN analyses
          THEN /\ jobs' = [jobs EXCEPT ![j] = [@ EXCEPT !.pc = "catch",
                                                        !.error = "Analysis result not found"]]
               /\ UNCHANGED history
          ELSE IF analyses[analysisId].processingId \notin DOMAIN history
          THEN /\ jobs' = [jobs EXCEPT ![j] = [@ EXCEPT !.pc = "catch",
                                                        !.error = "Processing history not found"]]
               /\ UNCHANGED history
          ELSE IF analyses[analysisId].fileId \notin DOMAIN files
          THEN /\ jobs' = [jobs EXCEPT ![j] = [@ EXCEPT !.pc = "catch",
                                                        !.error = "Original file not found"]]
               /\ UNCHANGED history
          ELSE /\ history' = [history EXCEPT ![analyses[analysisId].processingId] =
                                 clippingUpdateProcessingStatus(
                                     @, "clipping", <<"Video clipping started">>)]
               /\ jobs' = [jobs EXCEPT ![j] =
                              [@ EXCEPT !.loaded = analysisId,
                                        !.pc = IF Len(segmentsToClipOf(
                                                          jobs[j], analyses[analysisId])) = 0
                                               THEN "finish" ELSE "generate"]]
    /\ UNCHANGED <<storage, uploads, files, transcripts, analyses, clips, clipFiles>>
    /\ UNCHANGED mergeVars

\* FfmpegService.calculateDuration
calculateDuration(start, end) == timeToSeconds(end) - timeToSeconds(start)

\* the loop of generateVideoClips after a successful cut: a skipped range has
\* no file to stat, and videoClipModel.create requires a rank
RECURSIVE saveClips(_, _, _, _)
saveClips(segments, i, analysisId, fileId) ==
    IF i > Len(segments) THEN [saved |-> <<>>, threw |-> FALSE]
    ELSE IF calculateDuration(segments[i].startTime, segments[i].endTime) <= 0
            \/ segments[i].rank = <<>>
         THEN [saved |-> <<>>, threw |-> TRUE]
         ELSE LET rest == saveClips(segments, i + 1, analysisId, fileId)
              IN [saved |-> <<[analysisId |-> analysisId,
                               originalFileId |-> fileId,
                               originalSegmentId |-> segments[i].id,
                               startTime |-> segments[i].startTime,
                               endTime |-> segments[i].endTime,
                               duration |-> segments[i].duration,
                               score |-> segments[i].aggregatedScore,
                               rank |-> segments[i].rank[1]]>> \o rest.saved,
                  threw |-> rest.threw]

\* uploads/clips/<original name without extension>
createClipsDirectory(originalFilename) == <<"uploads", "clips", originalFilename>>

\* the files clip_1.mp4 .. clip_n.mp4 of outputDir after the cut: one per
\* timecode of positive duration, an existing file of that name overwritten
cutMediaByTimecodes(disk, outputDir, segments, analysisId, fileId) ==
    LET written == {i \in DOMAIN segments :
                       calculateDuration(segments[i].startTime, segments[i].endTime) > 0}
        paths == DOMAIN disk \cup {<<outputDir, i>> : i \in written}
    IN [path \in paths |->
           IF path[1] = outputDir /\ path[2] \in written
           THEN [analysisId |-> analysisId, fileId |-> fileId,
                 startTime |-> segments[path[2]].startTime,
                 endTime |-> segments[path[2]].endTime]
           ELSE disk[path]]

\* faulty variant: an error of generateVideoClips is swallowed and one clip is
\* counted for every segment handed to it
GenerateVideoClips_CountsSegments(j, cutOk) ==
    /\ Running(j, "clipping", "generate")
    /\ LET analysisRecord == analyses[jobs[j].loaded]
           segments == segmentsToClipOf(jobs[j], analysisRecord)
           outcome == IF cutOk
                      THEN saveClips(segments, 1, jobs[j].loaded, analysisRecord.fileId)
                      ELSE [saved |-> <<>>, threw |-> TRUE]
       IN /\ clips' = clips \o outcome.saved
          /\ jobs' = [jobs EXCEPT ![j] = [@ EXCEPT !.pc = "finish",
                                                   !.clipsCreated = Len(segments)]]
    /\ UNCHANGED <<storage, uploads, files, history, transcripts, analyses, clipFiles>>
    /\ UNCHANGED mergeVars

\* step 6: generateVideoClips
GenerateVideoClips(j, cutOk) ==
    /\ Running(j, "clipping", "generate")
    /\ LET analysisRecord == analyses[jobs[j].loaded]
           segments == segmentsToClipOf(jobs[j], analysisRecord)
           outcome == IF cutOk
                      THEN saveClips(segments, 1, jobs[j].loaded, analysisRecord.fileId)
                      ELSE [saved |-> <<>>, threw |-> TRUE]
           clipsDir == createClipsDirectory(files[analysisRecord.fileId].originalName)
       IN /\ clips' = clips \o outcome.saved
          \* cutMediaByTimecodes has written every clip file before the first
          \* document is created; a failed cut is taken to leave no file
          /\ clipFiles' = IF cutOk
                          THEN cutMediaByTimecodes(clipFiles, clipsDir, segments,
                                                   jobs[j].loaded, analysisRecord.fileId)
                          ELSE clipFiles
          /\ jobs' = [jobs EXCEPT ![j] =
                         IF outcome.threw
                         THEN [@ EXCEPT !.pc = "catch",
                                        !.error = "Failed to generate video clips"]
                         ELSE [@ EXCEPT !.pc = "finish",
                                        !.clipsCreated = Len(outcome.saved)]]
    /\ UNCHANGED <<storage, uploads, files, history, transcripts, analyses>>
    /\ UNCHANGED mergeVars

\* step 7, or the return when no segment is left to clip
FinishClipping(j) ==
    /\ Running(j, "clipping", "finish")
    /\ history' = [history EXCEPT ![analyses[jobs[j].loaded].processingId] =
                      clippingUpdateProcessingStatus(
                          @, "clipping",
                          IF Len(segmentsToClipOf(jobs[j], analyses[jobs[j].loaded])) = 0
                          THEN <<"No segments to clip">>
                          ELSE <<"Video clipping completed. Created ",
                                 jobs[j].clipsCreated, " clips.">>)]
    /\ jobs' = [jobs EXCEPT ![j] = Settle([@ EXCEPT !.result = "completed",
                                                    !.resultDoc = jobs[j].loaded], FALSE)]
    /\ UNCHANGED <<storage, uploads, files, transcripts, analyses, clips, clipFiles>>
    /\ UNCHANGED mergeVars

\* the catch block of process
ClippingFailed(j) ==
    /\ Running(j, "clipping", "catch")
    /\ LET analysisId == jobs[j].data
       IN history' = IF analysisId \in DOMAIN analyses
                        /\ analyses[analysisId].processingId \in DOMAIN history
                     THEN [history EXCEPT ![analyses[analysisId].processingId] =
                              clippingUpdateProcessingStatus(
                                  @, "clipping",
                                  <<"Video clipping failed: ", jobs[j].error>>)]
                     ELSE history
    /\ jobs' = [jobs EXCEPT ![j] = Settle([@ EXCEPT !.result = "failed",
                                                    !.resultDoc = 0,
                                                    !.clipsCreated = 0], FALSE)]
    /\ UNCHANGED <<storage, uploads, files, transcripts, analyses, clips, clipFiles>>
    /\ UNCHANGED mergeVars

\* ProcessingService.triggerClippingJob; an option of 0 is one the caller omits
TriggerClippingJob(analysisId, options) ==
    /\ analysisId \in DOMAIN analyses
    /\ analyses[analysisId].processingId \in DOMAIN history
    /\ CanRequest
    /\ LET configuration == history[analyses[analysisId].processingId].configuration
       IN jobs' = Append(jobs,
                     [NewJob("clipping", analysisId, "",
                            [maxClips |->
                                 IF options.maxClips # 0 THEN options.maxClips
                                 ELSE configuration.clippingConfig.maxClips,
                             minScoreThreshold |->
                                 IF options.minScoreThreshold # 0
                                 THEN options.minScoreThreshold
                                 ELSE configuration.clippingConfig.minScoreThreshold,
                             maxCombinedDuration |->
                                 IF options.maxCombinedDuration # 0
                                 THEN options.maxCombinedDuration
                                 ELSE configuration.analysisConfig.maxCombinedDuration])
                      EXCEPT !.requested = TRUE])
    /\ UNCHANGED <<storage, uploads, files, history, transcripts, analyses, clips, clipFiles>>
    /\ UNCHANGED mergeVars

\* overrides a caller of triggerClippingJob may send
ClippingOptions ==
    {NoOpts, [maxClips |-> 1, minScoreThreshold |-> 7, maxCombinedDuration |-> 60]}

(***************************************************************************)
(* ClippingProcessor: steps 4 and 5 on the segments an analysis stored      *)
(***************************************************************************)
ReclipScores == {4, 7, 8}
ReclipDurations == {30}
ReclipBudgets == {90}
\* the job's maxClips, minScoreThreshold and maxCombinedDuration; a
\* maxCombinedDuration of 0 is one the job data does not carry
ReclipOptions ==
    [maxClips : {1, 2}, minScoreThreshold : {5, 8}, maxCombinedDuration : {0, 60, 90}]

\* the optimized segments of an analysis result as the clipping job loads
\* them, for any segments the analysis was given
InitReclip ==
    /\ \E n \in 1..MaxSegs, flag \in BOOLEAN :
         \E durs \in [1..n -> ReclipDurations], scores \in [1..n -> ReclipScores] :
             analyzedSegments = MkSegments(durs, scores, [k \in 1..n |-> flag],
                                           IF flag THEN "same" ELSE "distinct")
    /\ \E maxDur \in ReclipBudgets :
         analysisConfig = [maxCombinedDuration |-> maxDur,
                           minInformativenessScore |-> 0]
    /\ LET saved == storeOptimizedSegments(optimizeSegments(analyzedSegments, analysisConfig))
       IN /\ mergePc = "ranked"
          /\ mergedSegments = optimizeSegmentsByMerging(analyzedSegments, analysisConfig)
          /\ optimizedSegments = optimizeSegments(analyzedSegments, analysisConfig)
          /\ \E options \in ReclipOptions :
                clipping = [NoClipping EXCEPT
                               !.pc = "loaded",
                               !.stored = [i \in DOMAIN saved |->
                                              loadOptimizedSegment(saved[i])],
                               !.options = options]
    /\ scoring = NoScoring
    /\ NoPipeline

\* step 4 of process
ReoptimizeSegments ==
    /\ clipping.pc = "loaded"
    /\ clipping' = [clipping EXCEPT
                        !.pc = "reoptimized",
                        !.segmentsToUse =
                            IF clipping.options.maxCombinedDuration # 0
                            THEN reoptimizeSegmentsWithDuration(
                                     clipping.stored, clipping.options.maxCombinedDuration)
                            ELSE clipping.stored]
    /\ UNCHANGED <<analyzedSegments, analysisConfig, mergePc, mergedSegments,
                   optimizedSegments, scoring>>
    /\ UNCHANGED pipeVars

\* step 5 of process
PrepareSegments ==
    /\ clipping.pc = "reoptimized"
    /\ clipping' = [clipping EXCEPT
                        !.pc = "prepared",
                        !.segmentsToClip =
                            prepareSegmentsForClipping(clipping.segmentsToUse,
                                                       clipping.options.maxClips,
                                                       clipping.options.minScoreThreshold),
                        !.timecodes =
                            LET segments ==
                                    prepareSegmentsForClipping(
                                        clipping.segmentsToUse, clipping.options.maxClips,
                                        clipping.options.minScoreThreshold)
                            IN [i \in DOMAIN segments |->
                                   [start |-> segments[i].startTime,
                                    end |-> segments[i].endTime]]]
    /\ UNCHANGED <<analyzedSegments, analysisConfig, mergePc, mergedSegments,
                   optimizedSegments, scoring>>
    /\ UNCHANGED pipeVars

NextReclip == ReoptimizeSegments \/ PrepareSegments

SpecReclip == InitReclip /\ [][NextReclip]_vars

\* the segments step 4 has produced by combining two or more stored ones
CombinedByReoptimization ==
    {i \in DOMAIN clipping.segmentsToUse :
        /\ clipping.options.maxCombinedDuration # 0
        /\ clipping.segmentsToUse[i] \notin Range(clipping.stored)}

\* C33: re-optimization in the clipping stage respects the overriding budget:
\* every segment it produces by combining two or more optimized segments has
\* a clip range no longer than maxCombinedDuration, with startTime not later
\* than endTime and endTime minus startTime equal to its duration field.
C33_ReoptimizedWithinBudget ==
    clipping.pc \in {"reoptimized", "prepared"} =>
        \A i \in CombinedByReoptimization :
            LET segment == clipping.segmentsToUse[i]
                range == timeToSeconds(segment.endTime) - timeToSeconds(segment.startTime)
            IN /\ range <= clipping.options.maxCombinedDuration
               /\ range >= 0
               /\ range = segment.duration

\* the positions of the segments step 5 has left out
Unselected ==
    {i \in DOMAIN clipping.segmentsToUse :
        clipping.segmentsToUse[i] \notin Range(clipping.segmentsToClip)}

MeetsThreshold(segment) ==
    segment.aggregatedScore.num
        >= clipping.options.minScoreThreshold * 10 * segment.aggregatedScore.den

\* C34: the clipping stage selects at most maxClips segments, each with
\* aggregatedScore greater than or equal to minScoreThreshold, ordered by
\* non-increasing extractionPriority; no unselected segment that meets the
\* threshold has a higher extractionPriority than a selected one.
C34_TopSegmentsSelected ==
    clipping.pc = "prepared" =>
        LET selected == clipping.segmentsToClip
        IN /\ Len(selected) <= clipping.options.maxClips
           /\ Range(selected) \subseteq Range(clipping.segmentsToUse)
           /\ \A k \in DOMAIN selected : MeetsThreshold(selected[k])
           /\ \A k \in DOMAIN selected :
                 k > 1 => selected[k - 1].extractionPriority
                              >= selected[k].extractionPriority
           /\ \A i \in Unselected, k \in DOMAIN selected :
                 MeetsThreshold(clipping.segmentsToUse[i]) =>
                    clipping.segmentsToUse[i].extractionPriority
                        <= selected[k].extractionPriority

\* maxClips segments were selected while another segment at or above the
\* threshold, of lower priority, was left out
C34_Witness ==
    /\ clipping.pc = "prepared"
    /\ Len(clipping.segmentsToClip) = clipping.options.maxClips
    /\ \E i \in Unselected :
          /\ MeetsThreshold(clipping.segmentsToUse[i])
          /\ clipping.segmentsToUse[i].extractionPriority
                 < clipping.segmentsToClip[Len(clipping.segmentsToClip)].extractionPriority

(***************************************************************************)
(* FfmpegService.cutMediaByTimecodes on its own                            *)
(***************************************************************************)
\* time strings a range may carry: HH:MM:SS, MM:SS and plain seconds
CutTimes == {<<0, 0, 30>>, <<1, 30>>, <<45>>}

CutRanges == [start : CutTimes, end : CutTimes]

\* outputPattern.replace('%i', String(index + 1))
outputPathOf(outputPattern, index) == <<outputPattern, index>>

\* faulty variant: every range is handed to ffmpeg
ffmpegRuns_NoSkip(timecodes, outputPattern) ==
    [i \in DOMAIN timecodes |->
        [index |-> i, startTime |-> timecodes[i].start,
         duration |-> calculateDuration(timecodes[i].start, timecodes[i].end),
         output |-> outputPathOf(outputPattern, i)]]

\* the ffmpeg commands the forEach of cutMediaByTimecodes runs, in order: one
\* for each range whose duration is positive
ffmpegRuns(timecodes, outputPattern) ==
    LET valid == SelectSeq([i \in DOMAIN timecodes |-> i],
                           LAMBDA i : ~(calculateDuration(timecodes[i].start,
                                                          timecodes[i].end) <= 0))
    IN [k \in DOMAIN valid |->
           [index |-> valid[k], startTime |-> timecodes[valid[k]].start,
            duration |-> calculateDuration(timecodes[valid[k]].start,
                                           timecodes[valid[k]].end),
            output |-> outputPathOf(outputPattern, valid[k])]]

\* the outputPaths array: a path is pushed for every range, skipped or not
outputPathsOf(timecodes, outputPattern) ==
    [i \in DOMAIN timecodes |-> outputPathOf(outputPattern, i)]

InitCut ==
    /\ analyzedSegments = <<>>
    /\ analysisConfig = NoConfig.analysisConfig
    /\ mergePc = "idle"
    /\ mergedSegments = <<>>
    /\ optimizedSegments = <<>>
    /\ scoring = NoScoring
    /\ NoPipeline
    /\ \E n \in 0..MaxSegs :
          \E timecodes \in [1..n -> CutRanges] :
              clipping = [NoClipping EXCEPT !.pc = "prepared", !.timecodes = timecodes]

\* cutMediaByTimecodes; failed holds the ranges whose ffmpeg run ends in error
CutMediaByTimecodes(failed) ==
    /\ clipping.pc = "prepared"
    /\ LET runs == ffmpegRuns(clipping.timecodes, "clip_%i.mp4")
       IN /\ failed \subseteq {runs[k].index : k \in DOMAIN runs}
          /\ clipping' = [clipping EXCEPT
                              !.pc = "cut",
                              !.runs = runs,
                              !.failed = failed,
                              !.threw = failed # {},
                              !.clipPaths = IF failed # {} THEN <<>>
                                            ELSE outputPathsOf(clipping.timecodes,
                                                               "clip_%i.mp4")]
    /\ UNCHANGED <<analyzedSegments, analysisConfig, mergePc, mergedSegments,
                   optimizedSegments, scoring>>
    /\ UNCHANGED pipeVars

NextCut == \E failed \in SUBSET (1..MaxSegs) : CutMediaByTimecodes(failed)

SpecCut == InitCut /\ [][NextCut]_vars

\* the runs started for range i
RunsOf(i) == {k \in DOMAIN clipping.runs : clipping.runs[k].index = i}

\* C32: cutting by time ranges skips every range whose end is not later than
\* its start: no cut is performed for such a range and no error is raised for
\* it, every range with end later than start is cut exactly once, and the
\* returned list holds one output path per input range, in input order.
C32_SkipsEmptyRanges ==
    clipping.pc = "cut" =>
        /\ \A i \in DOMAIN clipping.timecodes :
              LET range == clipping.timecodes[i]
              IN IF timeToSeconds(range.end) > timeToSeconds(range.start)
                 THEN /\ Cardinality(RunsOf(i)) = 1
                      /\ \A k \in RunsOf(i) :
                            /\ clipping.runs[k].startTime = range.start
                            /\ clipping.runs[k].duration =
                                   timeToSeconds(range.end) - timeToSeconds(range.start)
                            /\ clipping.runs[k].output = outputPathOf("clip_%i.mp4", i)
                 ELSE RunsOf(i) = {} /\ i \notin clipping.failed
        /\ \A k \in DOMAIN clipping.runs : clipping.runs[k].index \in DOMAIN clipping.timecodes
        /\ clipping.threw <=> clipping.failed # {}
        /\ ~clipping.threw =>
              /\ Len(clipping.clipPaths) = Len(clipping.timecodes)
              /\ \A i \in DOMAIN clipping.timecodes :
                    clipping.clipPaths[i] = outputPathOf("clip_%i.mp4", i)

\* three ranges were cut without error: the first ends before it starts, the
\* second is empty, the third is cut
C32_Witness ==
    /\ clipping.pc = "cut"
    /\ ~clipping.threw
    /\ Len(clipping.timecodes) = 3
    /\ timeToSeconds(clipping.timecodes[1].end) < timeToSeconds(clipping.timecodes[1].start)
    /\ clipping.timecodes[2].end = clipping.timecodes[2].start
    /\ Len(clipping.runs) = 1
    /\ clipping.runs[1].index = 3
    /\ Len(clipping.clipPaths) = 3

(***************************************************************************)
(* AnalysisService.createAnalyzedSegments on its own                       *)
(***************************************************************************)
\* createDefaultAnalysis
createDefaultAnalysis(segment) ==
    [segmentId |-> segment.id,
     informativenessScore |-> 5,
     keyTopics |-> << "general" >>,
     shouldCombineWithNext |-> FALSE]

\* analysisResults.find(a => a.segmentId === segment._id): the first entry
\* with the segment's id, or none
findAnalysis(analysisResults, id) ==
    LET matching == {k \in DOMAIN analysisResults : analysisResults[k].segmentId = id}
    IN IF matching = {} THEN <<>>
       ELSE << analysisResults[CHOOSE k \in matching : \A m \in matching : k <= m] >>

createAnalyzedSegments_ByPosition(originalSegments, analysisResults) ==
    [index \in DOMAIN originalSegments |->
        LET segment == originalSegments[index]
            analysis == IF index \in DOMAIN analysisResults
                        THEN analysisResults[index]
                        ELSE createDefaultAnalysis(segment)
        IN [segmentId |-> segment.id,
            startTime |-> segment.startTime,
            endTime |-> segment.endTime,
            duration |-> segment.duration,
            informativenessScore |-> analysis.informativenessScore,
            percentileRank |-> 0,
            keyTopics |-> analysis.keyTopics,
            recommendedForExtraction |-> analysis.informativenessScore >= 7,
            shouldCombineWithNext |-> analysis.shouldCombineWithNext]]

\* createAnalyzedSegments: the entry found by id, else the entry at the
\* segment's index, else the default analysis; the fields computed from the
\* segment's text alone (title, summary, keywordDensity) are not carried
createAnalyzedSegments(originalSegments, analysisResults) ==
    [index \in DOMAIN originalSegments |->
        LET segment == originalSegments[index]
            found == findAnalysis(analysisResults, segment.id)
            analysis == IF found # <<>> THEN found[1]
                        ELSE IF index \in DOMAIN analysisResults
                             THEN analysisResults[index]
                             ELSE createDefaultAnalysis(segment)
        IN [segmentId |-> segment.id,
            startTime |-> segment.startTime,
            endTime |-> segment.endTime,
            duration |-> segment.duration,
            informativenessScore |-> analysis.informativenessScore,
            percentileRank |-> 0,
            keyTopics |-> analysis.keyTopics,
            recommendedForExtraction |-> analysis.informativenessScore >= 7,
            shouldCombineWithNext |-> analysis.shouldCombineWithNext]]

\* transcription.segments: distinct ids, one after the other
TranscriptSegments(n) ==
    [k \in 1..n |->
        [id |-> k,
         startTime |-> secondsToTimeString(30 * (k - 1)),
         endTime |-> secondsToTimeString(30 * k),
         duration |-> 30]]

\* ids a scorer entry may carry: those of the transcript and one of no segment
EntryIds == 0..MaxSegs

EntryScores == {3, 8}

\* one entry of SegmentAnalysisResponse.segments
ScorerEntries ==
    [segmentId : EntryIds, informativenessScore : EntryScores,
     keyTopics : {<< "topic" >>}, shouldCombineWithNext : BOOLEAN]

InitCreate ==
    /\ analyzedSegments = <<>>
    /\ analysisConfig = NoConfig.analysisConfig
    /\ mergePc = "idle"
    /\ mergedSegments = <<>>
    /\ optimizedSegments = <<>>
    /\ clipping = NoClipping
    /\ NoPipeline
    /\ \E n \in 0..MaxSegs, m \in 0..MaxSegs :
          \E entries \in [1..m -> ScorerEntries] :
              scoring = [NoScoring EXCEPT
                             !.pc = "answered",
                             !.segments = TranscriptSegments(n),
                             !.response = [NoResponse EXCEPT !.segments = entries]]

\* analyzeSegments, step 3
CreateAnalyzedSegments ==
    /\ scoring.pc = "answered"
    /\ analyzedSegments' = createAnalyzedSegments(scoring.segments,
                                                   scoring.response.segments)
    /\ scoring' = [scoring EXCEPT !.pc = "created"]
    /\ UNCHANGED <<analysisConfig, mergePc, mergedSegments, optimizedSegments, clipping>>
    /\ UNCHANGED pipeVars

NextCreate == CreateAnalyzedSegments

SpecCreate == InitCreate /\ [][NextCreate]_vars

\* entries of the response that carry the id of transcript segment i
EntriesFor(i) ==
    {k \in DOMAIN scoring.response.segments :
        scoring.response.segments[k].segmentId = scoring.segments[i].id}

\* C38: whatever the scorer answered (entries missing, extra, reordered),
\* there is exactly one analyzed segment per transcript segment, in
\* transcript order and with that segment's id; a segment whose id an entry
\* carries has that entry's score (the first such entry when several carry
\* it), and a segment with no entry of its id and none at its position has
\* score 5 and shouldCombineWithNext false.
C38_OneAnalyzedSegmentPerTranscriptSegment ==
    scoring.pc = "created" =>
        /\ Len(analyzedSegments) = Len(scoring.segments)
        /\ \A i \in DOMAIN scoring.segments :
              /\ analyzedSegments[i].segmentId = scoring.segments[i].id
              /\ analyzedSegments[i].startTime = scoring.segments[i].startTime
              /\ EntriesFor(i) # {} =>
                    \E k \in EntriesFor(i) :
                        /\ \A m \in EntriesFor(i) : k <= m
                        /\ analyzedSegments[i].informativenessScore
                               = scoring.response.segments[k].informativenessScore
              /\ (EntriesFor(i) = {} /\ i > Len(scoring.response.segments)) =>
                    /\ analyzedSegments[i].informativenessScore = 5
                    /\ analyzedSegments[i].shouldCombineWithNext = FALSE

\* three transcript segments; the scorer answered for the second and then
\* the first and for no other: each of the two takes the score of the entry
\* with its id, not of the entry at its position, and the third gets the
\* default
C38_Witness ==
    /\ scoring.pc = "created"
    /\ Len(scoring.segments) = 3
    /\ Len(scoring.response.segments) = 2
    /\ scoring.response.segments[1].segmentId = 2
    /\ scoring.response.segments[2].segmentId = 1
    /\ scoring.response.segments[1].informativenessScore = 8
    /\ scoring.response.segments[2].informativenessScore = 3
    /\ analyzedSegments[1].informativenessScore = 3
    /\ analyzedSegments[2].informativenessScore = 8
    /\ analyzedSegments[3].informativenessScore = 5
    /\ ~analyzedSegments[3].shouldCombineWithNext

(***************************************************************************)
(* The pipeline as a whole                                                 *)
(***************************************************************************)
\* one media item from its accepted upload on: the state uploadFile leaves
\* behind for a file of any type, with or without a processing configuration,
\* whether or not the transcription job could be added
InitPipeline ==
    /\ NoMerge
    /\ \E mimeType \in MimeTypes, config \in Configs \cup {NoConfig}, addOk \in BOOLEAN :
          LET recorded == isTranscribableFile(mimeType) /\ config # NoConfig
          IN /\ storage = {1}
             /\ files = <<[filePath |-> 1, originalName |-> "a", mimeType |-> mimeType]>>
             /\ uploads = <<uploadResult(1, recorded,
                                          isTranscribableFile(mimeType) /\ ~addOk)>>
             /\ history = IF recorded THEN 1 :> createProcessingHistory(config) ELSE <<>>
             /\ jobs = IF isTranscribableFile(mimeType) /\ addOk
                       THEN <<NewJob("transcription", 1, mimeType, NoOpts)>>
                       ELSE <<>>
             /\ transcripts = <<>>
             /\ analyses = <<>>
             /\ clips = <<>>
             /\ clipFiles = <<>>

NextPipeline ==
    \/ \E fileId \in DOMAIN files : TriggerTranscription(fileId)
    \/ \E transcriptionId \in 1..(Len(transcripts) + 1) : ReRunAnalysis(transcriptionId)
    \/ \E analysisId \in DOMAIN analyses, options \in ClippingOptions :
          TriggerClippingJob(analysisId, options)
    \/ \E j \in DOMAIN jobs : Deliver(j)
    \/ \E j \in DOMAIN jobs : Redeliver(j)
    \/ \E j \in DOMAIN jobs, ok \in BOOLEAN : Transcribe(j, ok)
    \/ \E j \in DOMAIN jobs, durations \in SampleDurations, ok \in BOOLEAN :
          SaveTranscription(j, durations, ok)
    \/ \E j \in DOMAIN jobs, addOk \in BOOLEAN : QueueAnalysisJob(j, addOk)
    \/ \E j \in DOMAIN jobs, saveOk \in BOOLEAN : TranscriptionFailed(j, saveOk)
    \/ \E j \in DOMAIN jobs : BeginAnalysis(j)
    \/ \E j \in DOMAIN jobs, n \in 1..MaxSegs, ok \in BOOLEAN :
          \E scores \in [1..n -> PipeScores] : AnalyzeAndSave(j, scores, ok)
    \/ \E j \in DOMAIN jobs : CompleteAnalysis(j)
    \/ \E j \in DOMAIN jobs, addOk \in BOOLEAN : TriggerAutoClipping(j, addOk)
    \/ \E j \in DOMAIN jobs : AnalysisFailed(j)
    \/ \E j \in DOMAIN jobs : BeginClipping(j)
    \/ \E j \in DOMAIN jobs, cutOk \in BOOLEAN : GenerateVideoClips(j, cutOk)
    \/ \E j \in DOMAIN jobs : FinishClipping(j)
    \/ \E j \in DOMAIN jobs : ClippingFailed(j)

SpecPipeline == InitPipeline /\ [][NextPipeline]_vars

\* the steps the queues and the consumers take on their own
PipelineProgress ==
    \/ \E j \in DOMAIN jobs : Deliver(j)
    \/ \E j \in DOMAIN jobs, ok \in BOOLEAN : Transcribe(j, ok)
    \/ \E j \in DOMAIN jobs, durations \in SampleDurations, ok \in BOOLEAN :
          SaveTranscription(j, durations, ok)
    \/ \E j \in DOMAIN jobs, addOk \in BOOLEAN : QueueAnalysisJob(j, addOk)
    \/ \E j \in DOMAIN jobs, saveOk \in BOOLEAN : TranscriptionFailed(j, saveOk)
    \/ \E j \in DOMAIN jobs : BeginAnalysis(j)
    \/ \E j \in DOMAIN jobs, n \in 1..MaxSegs, ok \in BOOLEAN :
          \E scores \in [1..n -> PipeScores] : AnalyzeAndSave(j, scores, ok)
    \/ \E j \in DOMAIN jobs : CompleteAnalysis(j)
    \/ \E j \in DOMAIN jobs, addOk \in BOOLEAN : TriggerAutoClipping(j, addOk)
    \/ \E j \in DOMAIN jobs : AnalysisFailed(j)
    \/ \E j \in DOMAIN jobs : BeginClipping(j)
    \/ \E j \in DOMAIN jobs, cutOk \in BOOLEAN : GenerateVideoClips(j, cutOk)
    \/ \E j \in DOMAIN jobs : FinishClipping(j)
    \/ \E j \in DOMAIN jobs : ClippingFailed(j)

\* the pipeline when every waiting job is eventually delivered and every call
\* a consumer awaits eventually returns or throws
SpecPipelineFair == SpecPipeline /\ WF_vars(PipelineProgress)

(***************************************************************************)
(* Two media items side by side                                            *)
(***************************************************************************)
\* the state two accepted uploads of videos leave behind, each with its
\* processing configuration and its transcription job waiting; the two
\* original file names may be equal
InitItems ==
    /\ NoMerge
    /\ \E names \in [1..2 -> OriginalNames], config \in Configs :
          /\ storage = {1, 2}
          /\ files = [i \in 1..2 |-> [filePath |-> i, originalName |-> names[i],
                                      mimeType |-> "video/mp4"]]
          /\ uploads = [i \in 1..2 |-> uploadResult(i, TRUE, FALSE)]
          /\ history = [i \in 1..2 |-> createProcessingHistory(config)]
          /\ jobs = [i \in 1..2 |-> NewJob("transcription", i, "video/mp4", NoOpts)]
          /\ transcripts = <<>>
          /\ analyses = <<>>
          /\ clips = <<>>
          /\ clipFiles = <<>>

\* the consumers of the three queues, and a caller asking for clips again
\* with options of their own
NextItems ==
    \/ \E analysisId \in DOMAIN analyses, options \in ClippingOptions \ {NoOpts} :
          TriggerClippingJob(analysisId, options)
    \/ \E j \in DOMAIN jobs : Deliver(j)
    \/ \E j \in DOMAIN jobs, ok \in BOOLEAN : Transcribe(j, ok)
    \/ \E j \in DOMAIN jobs, durations \in SampleDurations, ok \in BOOLEAN :
          SaveTranscription(j, durations, ok)
    \/ \E j \in DOMAIN jobs, addOk \in BOOLEAN : QueueAnalysisJob(j, addOk)
    \/ \E j \in DOMAIN jobs, saveOk \in BOOLEAN : TranscriptionFailed(j, saveOk)
    \/ \E j \in DOMAIN jobs : BeginAnalysis(j)
    \/ \E j \in DOMAIN jobs, n \in 1..MaxSegs, ok \in BOOLEAN :
          \E scores \in [1..n -> PipeScores] : AnalyzeAndSave(j, scores, ok)
    \/ \E j \in DOMAIN jobs : CompleteAnalysis(j)
    \/ \E j \in DOMAIN jobs, addOk \in BOOLEAN : TriggerAutoClipping(j, addOk)
    \/ \E j \in DOMAIN jobs : AnalysisFailed(j)
    \/ \E j \in DOMAIN jobs : BeginClipping(j)
    \/ \E j \in DOMAIN jobs, cutOk \in BOOLEAN : GenerateVideoClips(j, cutOk)
    \/ \E j \in DOMAIN jobs : FinishClipping(j)
    \/ \E j \in DOMAIN jobs : ClippingFailed(j)

SpecItems == InitItems /\ [][NextItems]_vars


(***************************************************************************)
(* Pipeline properties                                                     *)
(***************************************************************************)
\* the file whose pipeline record a job works for; 0 when its data names no
\* document
ItemOf(job) ==
    IF job.queue = "transcription" THEN job.data
    ELSE IF job.queue = "analysis"
         THEN IF job.data \in DOMAIN transcripts THEN transcripts[job.data].fileId ELSE 0
         ELSE IF job.data \in DOMAIN analyses THEN analyses[job.data].fileId ELSE 0

\* job j leaves its process call in this step because the stage logic threw
ThrewIn(j) ==
    /\ jobs[j].state = "active"
    /\ jobs[j].pc = "catch"
    /\ jobs'[j].state # "active"
    /\ jobs'[j].stalled = jobs[j].stalled

\* C4: whenever the logic of a stage consumer throws while processing an
\* item's job, the item's pipeline record ends up with status FAILED and
\* error details naming the failing stage and carrying the error message.
C4_FailureRecorded ==
    [][\A j \in DOMAIN jobs :
          (ThrewIn(j) /\ ItemOf(jobs[j]) \in DOMAIN history) =>
             LET record == history'[ItemOf(jobs[j])]
             IN /\ record.processingStatus = "failed"
                /\ record.errorDetails.stage = jobs[j].queue
                /\ record.errorDetails.message # <<>>
                /\ record.errorDetails.message[Len(record.errorDetails.message)]
                       = jobs[j].error]_vars

\* C5: when the logic of a stage consumer throws, its process call rejects,
\* so the queue counts a failed attempt and re-attempts the job (or fails it
\* for good once the attempts are used up); such a job is never completed.
C5_FailedJobRejects ==
    \A j \in DOMAIN jobs :
        jobs[j].result = "failed" => jobs[j].state \in {"waiting", "failed"}

\* C6 (as stated): once a record's status is FAILED no step changes it.
C6_FailedIsTerminal ==
    [][\A f \in DOMAIN history :
          history[f].processingStatus = "failed" =>
              history'[f].processingStatus = "failed"]_vars

\* C6: a record whose status is FAILED leaves that status only through a
\* status write of an analysis job running for its item: to ANALYSIS when the
\* job starts, to COMPLETED when it has saved its result; no request handler,
\* transcription job, clipping job or re-delivery changes it.
C6_FailedLeftOnlyByAnalysis ==
    [][\A f \in DOMAIN history :
          (history[f].processingStatus = "failed"
             /\ history'[f].processingStatus # "failed") =>
              \E j \in DOMAIN jobs :
                 /\ ItemOf(jobs[j]) = f
                 /\ \/ /\ Running(j, "analysis", "begin")
                       /\ jobs'[j].pc = "analyze"
                       /\ history'[f].processingStatus = "analysis"
                    \/ /\ Running(j, "analysis", "complete")
                       /\ jobs'[j].pc = "trigger"
                       /\ history'[f].processingStatus = "completed"]_vars

\* a record that failed once and was taken up again by an analysis job
C6_Witness ==
    \E f \in DOMAIN history :
        /\ history[f].errorDetails # NoError
        /\ history[f].processingStatus \in {"analysis", "completed"}

\* C7: a record whose clipping stage was triggered by the pipeline passes
\* through CLIPPING and is COMPLETED only after the clipping consumer has
\* finished: it is never COMPLETED while that clipping job waits or runs.
C7_CompletedAfterClipping ==
    \A j \in DOMAIN jobs :
        (/\ jobs[j].queue = "clipping"
         /\ ~jobs[j].requested
         /\ jobs[j].state \in {"waiting", "active"}
         /\ ItemOf(jobs[j]) \in DOMAIN history) =>
            history[ItemOf(jobs[j])].processingStatus # "completed"

\* C8: while the transcription consumer processes an item's job the record's
\* status is AUDIO_EXTRACTION or TRANSCRIPTION, and while the analysis
\* consumer processes it (after loading the record) the status is ANALYSIS.
C8_StatusTracksStage ==
    \A j \in DOMAIN jobs :
        (jobs[j].state = "active" /\ ItemOf(jobs[j]) \in DOMAIN history) =>
            /\ jobs[j].queue = "transcription" =>
                  history[ItemOf(jobs[j])].processingStatus
                      \in {"audio_extraction", "transcription"}
            /\ (jobs[j].queue = "analysis" /\ jobs[j].pc \in {"analyze", "complete"}) =>
                  history[ItemOf(jobs[j])].processingStatus = "analysis"

\* C9: when adding the analysis job fails after the transcript was saved,
\* the transcription job still returns 'completed' without an error, and the
\* saved transcript stays as it is, with status completed.
C9_AnalysisEnqueueFailureSwallowed ==
    [][\A j \in DOMAIN jobs :
          (Running(j, "transcription", "queue") /\ jobs'[j].enqueueFailed) =>
              /\ jobs'[j].state = "completed"
              /\ jobs'[j].result = "completed"
              /\ jobs'[j].error = "none"
              /\ transcripts' = transcripts
              /\ jobs'[j].resultDoc \in DOMAIN transcripts
              /\ transcripts[jobs'[j].resultDoc].status = "completed"]_vars

C9_Witness ==
    \E j \in DOMAIN jobs :
        /\ jobs[j].queue = "transcription"
        /\ jobs[j].enqueueFailed
        /\ jobs[j].state = "completed"
        /\ transcripts[jobs[j].resultDoc].status = "completed"

\* C10: when the automatic clipping trigger fails after an analysis, the
\* analysis job still returns 'completed', the analysis result stays saved
\* and the pipeline record is left as the analysis wrote it.
C10_AutoClippingFailureSwallowed ==
    [][\A j \in DOMAIN jobs :
          (Running(j, "analysis", "trigger") /\ jobs'[j].enqueueFailed) =>
              /\ jobs'[j].state = "completed"
              /\ jobs'[j].result = "completed"
              /\ jobs'[j].error = "none"
              /\ analyses' = analyses
              /\ jobs'[j].resultDoc \in DOMAIN analyses
              /\ history' = history]_vars

C10_Witness ==
    \E j \in DOMAIN jobs :
        /\ jobs[j].queue = "analysis"
        /\ jobs[j].enqueueFailed
        /\ jobs[j].state = "completed"
        /\ jobs[j].result = "completed"
        /\ history[ItemOf(jobs[j])].processingStatus = "completed"


(***************************************************************************)
(* Properties of the upload endpoint (SpecUpload)                          *)
(***************************************************************************)
\* the transcription jobs of a file that ended in the catch block
FailedTranscriptionJobs(fileId) ==
    {j \in DOMAIN jobs : /\ jobs[j].queue = "transcription"
                         /\ jobs[j].data = fileId
                         /\ jobs[j].result = "failed"}

\* C11: an upload whose transcription job could not be added, or whose
\* transcription job later failed, still has returned the saved file (and its
\* processing history), and the stored object, the File record and the
\* processing history record are all still there.
C11_UploadIndependent ==
    /\ \A u \in DOMAIN uploads :
          uploads[u].enqueueFailed =>
              /\ uploads[u].outcome = "ok"
              /\ uploads[u].file \in DOMAIN files
    /\ \A u \in DOMAIN uploads :
          uploads[u].outcome = "ok" =>
              /\ uploads[u].file \in DOMAIN files
              /\ files[uploads[u].file].filePath \in storage
              /\ uploads[u].processingHistory => uploads[u].file \in DOMAIN history

\* both cases: an upload whose add failed, and one whose job failed later
C11_Witness ==
    /\ \E u \in DOMAIN uploads :
          uploads[u].enqueueFailed /\ uploads[u].processingHistory
    /\ \E u \in DOMAIN uploads :
          /\ uploads[u].outcome = "ok"
          /\ uploads[u].processingHistory
          /\ FailedTranscriptionJobs(uploads[u].file) # {}


\* C12: a consumer run that fails adds no job for the following stage: the
\* run has added none before it threw, and its catch block adds none.
C12_NoNextStageOnFailure ==
    [][\A j \in DOMAIN jobs :
          ThrewIn(j) =>
              /\ jobs'[j].result = "failed"
              /\ jobs[j].enqueued = 0
              /\ jobs'[j].enqueued = 0
              /\ Len(jobs') = Len(jobs)]_vars

\* a failed transcription job and a failed analysis job, both settled
C12_Witness ==
    /\ \E j \in DOMAIN jobs :
          /\ jobs[j].queue = "transcription"
          /\ jobs[j].result = "failed"
          /\ jobs[j].state = "completed"
    /\ \E j \in DOMAIN jobs :
          /\ jobs[j].queue = "analysis"
          /\ jobs[j].result = "failed"
          /\ jobs[j].state = "completed"
          /\ jobs[j].data \in DOMAIN transcripts


\* C13: a job the pipeline itself adds for the next stage names a document
\* that is already saved: an analysis job a completed transcription, a
\* clipping job an analysis result; so the consumer that takes the job never
\* fails to find that document.
C13_EnqueueAfterPersist ==
    \A j \in DOMAIN jobs :
        ~jobs[j].requested =>
            /\ jobs[j].queue = "analysis" =>
                  /\ jobs[j].data \in DOMAIN transcripts
                  /\ transcripts[jobs[j].data].status = "completed"
                  /\ jobs[j].error # "Transcription not found"
            /\ jobs[j].queue = "clipping" =>
                  /\ jobs[j].data \in DOMAIN analyses
                  /\ jobs[j].error # "Analysis result not found"

\* an analysis job and a clipping job added by the pipeline, both past the
\* load of their document
C13_Witness ==
    /\ \E j \in DOMAIN jobs :
          /\ jobs[j].queue = "analysis"
          /\ ~jobs[j].requested
          /\ jobs[j].result = "completed"
    /\ \E j \in DOMAIN jobs :
          /\ jobs[j].queue = "clipping"
          /\ ~jobs[j].requested
          /\ jobs[j].state = "active"
          /\ jobs[j].pc \in {"generate", "finish"}

(***************************************************************************)
(* Documents of the pipeline                                               *)
(***************************************************************************)
AnalysesOf(transcriptionId) ==
    {a \in DOMAIN analyses : analyses[a].transcriptionId = transcriptionId}

\* C27: an analysis result is created once per transcript and is immutable
\* afterwards: after any sequence of analysis job executions for the same
\* transcript (first run, queue re-delivery, manual re-run) exactly one
\* analysis result exists for it, with the content written first.
C27_OneAnalysisPerTranscript ==
    /\ \A t \in DOMAIN transcripts : Cardinality(AnalysesOf(t)) <= 1
    /\ \A j \in DOMAIN jobs :
          (jobs[j].queue = "analysis" /\ jobs[j].state = "completed"
             /\ jobs[j].result = "completed")
            => Cardinality(AnalysesOf(jobs[j].data)) = 1

\* a step of a request handler: one job is added, marked as requested, and no
\* existing job moves
RequestStep ==
    /\ Len(jobs') = Len(jobs) + 1
    /\ jobs'[Len(jobs')].requested
    /\ SubSeq(jobs', 1, Len(jobs)) = jobs

\* a step of a stage consumer: a job that is being processed moves on
ConsumerStep ==
    \E j \in DOMAIN jobs :
        /\ jobs[j].state = "active"
        /\ jobs'[j] # jobs[j]

\* C28: request-handling code never changes an existing pipeline record:
\* re-triggering transcription, analysis or clipping leaves every existing
\* record's status, metrics and error details unchanged; every change to an
\* existing record is made by a stage consumer.
C28_RecordsChangedByConsumersOnly ==
    [][/\ RequestStep => history' = history
       /\ \A f \in DOMAIN history :
             /\ f \in DOMAIN history'
             /\ history'[f] # history[f] => (ConsumerStep /\ ~RequestStep)]_vars

\* a stage was re-triggered for an item whose record the consumers had
\* already moved past PENDING
C28_Witness ==
    /\ \E j \in DOMAIN jobs : jobs[j].requested
    /\ \E f \in DOMAIN history :
          /\ history[f].processingStatus \in {"completed", "failed"}
          /\ \E j \in DOMAIN jobs : jobs[j].requested /\ j > 1

\* what the pipeline holds of media item f: its record, transcripts, analysis
\* results, clip documents and the clip files cut from it
ItemState(f) ==
    [record |-> IF f \in DOMAIN history THEN <<history[f]>> ELSE <<>>,
     transcripts |-> SelectSeq(transcripts, LAMBDA t : t.fileId = f),
     analyses |-> SelectSeq(analyses, LAMBDA a : a.fileId = f),
     clips |-> SelectSeq(clips, LAMBDA c : c.originalFileId = f),
     clipFiles |-> {<<path, clipFiles[path]>> :
                       path \in {q \in DOMAIN clipFiles : clipFiles[q].fileId = f}}]

\* C29: jobs of different media items do not interfere: whatever the
\* interleaving, a step of a job of one item leaves the record, transcripts,
\* analysis results and clips of every other item as they were, so that each
\* item ends as if its jobs had run alone.
C29_ItemsDoNotInterfere ==
    [][\A j \in DOMAIN jobs :
          jobs'[j] # jobs[j] =>
             \A f \in DOMAIN files \ {ItemOf(jobs[j])} :
                 ItemState(f)' = ItemState(f)]_vars

\* the jobs a step adds to the queues
Added == SubSeq(jobs', Len(jobs) + 1, Len(jobs'))

\* job j is an analysis job whose process call returns "completed" in this step
AnalysisReturns(j) ==
    /\ jobs[j].queue = "analysis"
    /\ jobs[j].state = "active"
    /\ jobs'[j].state = "completed"
    /\ jobs'[j].result = "completed"

\* the analysis result saved by job j holds an optimized segment scoring at
\* least the configured minimum informativeness score
HasSegmentAtMinimum(j) ==
    LET analysisResult == analyses[jobs[j].saved]
        configuration == history[analysisResult.processingId].configuration
    IN \E i \in DOMAIN analysisResult.optimizedSegments :
          analysisResult.optimizedSegments[i].aggregatedScore
              >= configuration.analysisConfig.minInformativenessScore * 10

\* a clipping job is added on the pipeline's own account only by an analysis
\* job that returns, at most one per execution, for the result just saved
OneClippingJobPerAnalysis ==
    /\ \A k \in DOMAIN Added :
          (Added[k].queue = "clipping" /\ ~Added[k].requested) =>
             \E j \in DOMAIN jobs : AnalysisReturns(j)
    /\ \A j \in DOMAIN jobs :
          AnalysisReturns(j) =>
             /\ Len(Added) <= 1
             /\ \A k \in DOMAIN Added :
                   /\ Added[k].queue = "clipping"
                   /\ Added[k].data = jobs[j].saved

\* C30 as stated: after a successful analysis a clipping job is enqueued if
\* and only if a stored optimized segment has aggregatedScore at or above the
\* configured minimum informativeness score; one execution enqueues at most
\* one clipping job, carrying the id of the analysis result it just saved.
C30_ClippingEnqueuedIffHighValue ==
    [][/\ OneClippingJobPerAnalysis
       /\ \A j \in DOMAIN jobs :
             AnalysisReturns(j) => (Len(Added) = 1 <=> HasSegmentAtMinimum(j))]_vars

\* C30: after a successful analysis a clipping job is enqueued only if a
\* stored optimized segment has aggregatedScore at or above the configured
\* minimum informativeness score, and whenever there is such a segment the
\* job is enqueued unless the queue refuses it; one execution enqueues at
\* most one clipping job, carrying the id of the analysis result it just
\* saved.
C30_ClippingEnqueuedUnlessRefused ==
    [][/\ OneClippingJobPerAnalysis
       /\ \A j \in DOMAIN jobs :
             AnalysisReturns(j) =>
                /\ Len(Added) = 1 => HasSegmentAtMinimum(j)
                /\ HasSegmentAtMinimum(j) =>
                      (Len(Added) = 1 \/ jobs'[j].enqueueFailed)]_vars

\* an analysis job has returned "completed" and the clipping job it added
\* carries the id of the analysis result it saved
C30_Witness ==
    \E j \in DOMAIN jobs :
        /\ jobs[j].queue = "analysis"
        /\ jobs[j].state = "completed"
        /\ jobs[j].result = "completed"
        /\ jobs[j].enqueued \in DOMAIN jobs
        /\ jobs[jobs[j].enqueued].queue = "clipping"
        /\ jobs[jobs[j].enqueued].data = jobs[j].resultDoc

\* the step is uploadFile called with or without a file and a language code
IsUpload(hasFile, hasLanguage) ==
    \E originalName \in UploadNames, mimeType \in MimeTypes,
       config \in Configs \cup {NoConfig},
       failAt \in {"none", "storage", "metadata", "save", "history"}, addOk \in BOOLEAN :
       UploadFile(hasFile, hasLanguage, originalName, mimeType, config, failAt, addOk)

\* C31: input validation rejects an upload before any stage runs: uploadFile
\* called without a file or without a language code raises a bad-request
\* error and has written nothing to storage, created no File or processing
\* history record, and enqueued no transcription job.
C31_RejectedBeforeAnyWrite ==
    [][\A hasFile \in BOOLEAN, hasLanguage \in BOOLEAN :
          ((~hasFile \/ ~hasLanguage) /\ Len(uploads') = Len(uploads) + 1
              /\ IsUpload(hasFile, hasLanguage)) =>
             /\ uploads'[Len(uploads')].outcome = "bad_request"
             /\ storage' = storage
             /\ files' = files
             /\ history' = history
             /\ jobs' = jobs]_vars

\* an upload was rejected as a bad request after another had been accepted
\* and stored
C31_Witness ==
    /\ Len(uploads) = 2
    /\ uploads[1].outcome = "ok"
    /\ uploads[2].outcome = "bad_request"
    /\ storage = {1}
    /\ Len(files) = 1

\* a step of clipping job j while its process call runs
ClippingStep(j) ==
    /\ jobs[j].queue = "clipping"
    /\ jobs[j].state = "active"
    /\ jobs'[j] # jobs[j]

C36_CompletedHasAnalysis ==
    \A f \in DOMAIN history :
        history[f].processingStatus = "completed" =>
            \E a \in DOMAIN analyses : analyses[a].processingId = f

\* a record is COMPLETED while a second analysis job of the same item, added
\* by a re-run, is being processed
C36_Witness ==
    \E f \in DOMAIN history :
        /\ history[f].processingStatus = "completed"
        /\ \E a \in DOMAIN analyses : analyses[a].processingId = f
        /\ \E j \in DOMAIN jobs :
              /\ jobs[j].queue = "analysis"
              /\ jobs[j].state = "active"
              /\ jobs[j].requested

\* C37: every item uploaded with a processing configuration eventually
\* reaches status COMPLETED or FAILED, provided every enqueued job is
\* eventually delivered and every collaborator call eventually returns a
\* result or an error.
C37_EventuallyCompletedOrFailed ==
    \A f \in 1..MaxFiles :
        [](f \in DOMAIN history =>
              <>(/\ f \in DOMAIN history
                 /\ history[f].processingStatus \in {"completed", "failed"}))

====
